---- MODULE Spec2Model ----
(***************************************************************************)
(* Model of the debugger Bridge of nuclide-debugger (the class Bridge of   *)
(* pkg/nuclide-debugger/lib/DebuggerSteppingComponent.js): the two tables  *)
(* of requests in flight, the webview handle, the ipc-message listeners    *)
(* and the promise jobs of the async function _cachedSendCommand.          *)
(*                                                                         *)
(* JavaScript runs one task to completion and then drains the queue of     *)
(* promise jobs in FIFO order.  The variable draining is TRUE from the end *)
(* of a task that queued a job until the queue is empty: calls of the      *)
(* Bridge's methods and inbound events happen only while it is FALSE.      *)
(*                                                                         *)
(* A call of _cachedSendCommand whose caller has seen the outcome, and a   *)
(* Deferred that neither a table nor a running call refers to, cannot be   *)
(* observed any more; the model replaces them by Done and Collected.       *)
(*                                                                         *)
(* The module also models the device tasks of the device panel (the epic   *)
(* setDeviceEpic and getDeviceTasks with their cache), the native          *)
(* notifications of nuclide-notifications, the linter of nuclide-clang and *)
(* the Modal component; the parts share no state.                          *)
(***************************************************************************)
EXTENDS Integers, Sequences, FiniteSets, TLC

\* ---------------------------------------------------------------- bounds
MaxCallers == 2      \* calls of _cachedSendCommand in one behaviour
MaxListeners == 1    \* ipc-message handlers attached to one webview
MaxTimers == 1       \* setTimeout callbacks of cleanup() not yet run
MaxFetches == 2      \* calls of getDeviceTasks whose result has not
                     \*   reached the epic
MaxSetDevices == 3   \* SET_DEVICE actions in one behaviour
MaxLints == 1        \* calls of ClangLinter.lint not yet returned
MaxDiagnostics == 2  \* diagnostics in the data given to _processDiagnostics
MaxFetched == 1      \* diagnostics in one answer of getDiagnostics to lint
MaxDismissals == 4   \* calls of the onDismiss property of the Modal
MaxCalls == 4        \* calls of _cachedSendCommand in one behaviour in
                     \*   which one task makes several calls
MaxUserJobs == 1     \* promise jobs of the users of the Bridge not yet run

\* ---------------------------------------------------------------- values
Null == "null"
Rejected == "rejected"          \* the promise of the async function rejected
Unsettled == "unsettled"        \* the promise of the async function is pending
NoDeferred == 0

ExpressionsInFlight == "_expressionsInFlight"
GetPropertiesRequestsInFlight == "_getPropertiesRequestsInFlight"
Tables == {ExpressionsInFlight, GetPropertiesRequestsInFlight}

Keys == {"x"}                   \* expression texts and object ids
Results == {"r1"}               \* non-null response.result values
Errors == {"e1"}                \* non-null response.error values
Webviews == {"w1", "w2"}        \* webview elements
SingleWebview == {"w1"}         \* the webview of a Bridge that is given one

VARIABLES
  webview,             \* this._webview: Null or a webview
  cache,               \* [Tables -> [Keys -> deferred id or NoDeferred]]
  deferreds,           \* the Deferred objects created so far, by id
  callers,             \* the calls of _cachedSendCommand so far
  queue,               \* promise job queue
  draining,            \* TRUE while promise jobs wait to be run
  written,             \* messages the last operation wrote with webview.send
  warned,              \* getLogger().warn calls of the last operation
  listeners,           \* [Webviews -> number of attached ipc-message handlers]
  cleanupDisposables,  \* this._cleanupDisposables: [disposed, items]
  timers,              \* setTimeout callbacks scheduled and not yet run
  inflight,            \* [Tables -> [Keys -> the waiters of the commands
                       \*   written and not answered, oldest first]]
  last,                \* the operation that produced this state
  disposables,         \* this._disposables: the onUserChange subscription
  suppressBreakpointSync,  \* this._suppressBreakpointSync
  deviceTaskCache,     \* deviceTaskCache: [key -> DeviceTask or NoTask]
  factoryRuns,         \* [key -> calls of the factory given to getOrCreate]
  fetches,             \* the calls of getDeviceTasks that wait for providers
  deviceJobs,          \* the promise jobs of the device panel, oldest first
  setDevices,          \* the number of SET_DEVICE actions so far
  deviceTasks,         \* payload of the last setDeviceTasks action
  returned,            \* the last call of getDeviceTasks that returned
  subscriptions,       \* nuclide-notifications: Null or the subscriptions
  gkEnabled,           \* nuclide-notifications: the module's gkEnabled
  gkCallbackGiven,     \* activate has given its callback to onceGkInitialized
  whenFocused,         \* setting nuclide-notifications.whenFocused
  onlyNativeFriendly,  \* setting nuclide-notifications.onlyNativeFriendly
  focused,             \* remote.getCurrentWindow().isFocused()
  nativeNotifications, \* Notification objects the last operation created
  notified,            \* the operation of nuclide-notifications that ran last
  editors,             \* the text editors: [path, destroyed]
  defaultDiagnostics,  \* setting nuclide-clang.defaultDiagnostics
  lints,               \* calls of ClangLinter.lint waiting for getDiagnostics
  linted,              \* the call of ClangLinter.lint that returned last
  processed,           \* a call of ClangLinter._processDiagnostics on its own
  panel,               \* Modal: this._panel ("none", "shown", "destroyed")
  innerElement,        \* Modal: this._innerElement ("none" or "el")
  cancelDisposable,    \* Modal: this._cancelDisposable
  commandListener,     \* the core:cancel command of the Modal is registered
  clickSubscription,   \* the subscription to the clicks on window
  activeElement,       \* the element that has the focus ("body" or "el")
  dismissals,          \* calls of props.onDismiss so far
  modalLast            \* the operation on the Modal that ran last

\* The state of the device panel; the Bridge never touches it.
deviceVars == <<deviceTaskCache, factoryRuns, fetches, deviceJobs,
                setDevices, deviceTasks, returned>>

\* The state of nuclide-notifications and of what it reads.
notificationVars == <<subscriptions, gkEnabled, gkCallbackGiven, whenFocused,
                      onlyNativeFriendly, focused,
                      nativeNotifications, notified>>

\* The state of the linter of nuclide-clang and of what it reads.
linterVars == <<editors, defaultDiagnostics, lints, linted, processed>>

\* The state of the Modal component and of the listeners it registers.
modalVars == <<panel, innerElement, cancelDisposable, commandListener,
               clickSubscription, activeElement, dismissals, modalLast>>

vars == <<webview, cache, deferreds, callers, queue, draining, written, warned,
          listeners, cleanupDisposables, timers, inflight, last,
          disposables, suppressBreakpointSync, deviceVars, notificationVars,
          linterVars, modalVars>>

\* The state outside the Bridge.
outsideVars == <<deviceVars, notificationVars, linterVars, modalVars>>

\* The state of the Bridge; the device panel never touches it.
bridgeVars == <<webview, cache, deferreds, callers, queue, draining, written,
                warned, listeners, cleanupDisposables, timers, inflight, last,
                disposables, suppressBreakpointSync>>

\* The state outside the device panel, outside nuclide-notifications,
\* outside the linter and outside the Modal.
notDeviceVars == <<bridgeVars, notificationVars, linterVars, modalVars>>
notNotificationVars == <<bridgeVars, deviceVars, linterVars, modalVars>>
notLinterVars == <<bridgeVars, deviceVars, notificationVars, modalVars>>
notModalVars == <<bridgeVars, deviceVars, notificationVars, linterVars>>

\* The fields of the Bridge that only the breakpoint synchronisation and
\* dispose() touch.
breakpointVars == <<disposables, suppressBreakpointSync>>

\* last: op is the kind of the operation ("send", "deliver", "resume",
\* "observe", ...), api the public method or the notification that started
\* it, table and key the table and key it worked on; hit says whether the
\* table held an entry for the key, fresh whether the operation created
\* (send) or settled (deliver) a waiter, threw whether it raised, deferred
\* is the waiter it used.  For a "deliver" that settles a waiter, outcome
\* and error are the result and error of the response; for "observe",
\* outcome is what
\* _cachedSendCommand returned and final what the public method returns.
\* emitter is the webview whose ipc-message event a "deliver" handled.
\* dispatched is the call of setDebuggerMode the operation made: the mode
\* it passed and the expression table as it was at the moment of the call.
EmptyTable == [k \in Keys |-> NoDeferred]

NoDispatch == [mode |-> Null, expressions |-> EmptyTable]

NoOp == [op |-> "none", api |-> Null, table |-> Null, key |-> Null,
         hit |-> FALSE, fresh |-> FALSE, threw |-> FALSE,
         deferred |-> NoDeferred, outcome |-> Null, error |-> Null,
         final |-> Null, emitter |-> Null, dispatched |-> NoDispatch]

\* ---------------------------------------------------------- device panel
\* Names are sequences of characters, so that the key of the cache is the
\* text the template string builds.
Hosts == {<<"h">>, <<"h", "-", "d">>}
DeviceNames == {<<"e">>, <<"d", "-", "e">>}
DeviceTypes == {"android", "ios"}

\* state.device == null
NoDevice == [name |-> << >>]
Devices == [name : DeviceNames]

\* The part of the AppState that getDeviceTasks reads.
AppStates == [host : Hosts, device : Devices \cup {NoDevice},
              deviceType : DeviceTypes]

\* getDeviceTaskProviders(), in the order of the set.
Providers == <<[name |-> <<"b">>, type |-> "android"],
               [name |-> <<"a">>, type |-> "android"]>>

ProviderNames == {Providers[i].name : i \in 1..Len(Providers)}

\* `${state.host}-${device.name}-${provider.getName()}`
CacheKey(host, deviceName, providerName) ==
  host \o <<"-">> \o deviceName \o <<"-">> \o providerName

DeviceKeys ==
  {CacheKey(h, d, n) : h \in Hosts, d \in DeviceNames, n \in ProviderNames}

\* new DeviceTask(() => provider.getTask(host, device.name), name): the
\* host and device its getTask will use and its name; run tells the
\* instances apart that the factory makes for one key.
DeviceTask(host, deviceName, providerName, run) ==
  [host |-> host, device |-> deviceName, name |-> providerName, run |-> run]

NoTask == DeviceTask(<< >>, << >>, << >>, 0)

NoReturn == [called |-> FALSE,
             state |-> [host |-> << >>, device |-> NoDevice,
                        deviceType |-> "none"],
             tasks |-> << >>]

\* notified: op is the operation of nuclide-notifications that ran last,
\* title and body what it was called with and reported what isGkEnabled
\* returned to it.
NoNotification == [op |-> "none", title |-> << >>, body |-> << >>,
                   reported |-> FALSE]

\* The text editors: one of a saved file, one that has no path.
Editors == {"e1", "e2"}
NoPath == ""
EditorPath(e) == IF e = "e1" THEN "f.cpp" ELSE NoPath

\* linted: the editor of the call of lint that returned last, whether its
\* promise rejected, the messages it resolved to, how it came to its end
\* and what it was given by getDiagnostics.
NoData == [accurateFlags |-> FALSE, diagnostics |-> << >>]
NoLint == [called |-> FALSE, editor |-> "none", rejected |-> FALSE,
           messages |-> << >>, why |-> "none", logged |-> FALSE,
           tracked |-> FALSE, data |-> NoData, defaultDiagnostics |-> FALSE]

\* processed: the arguments of a call of _processDiagnostics (the data, the
\* path of the editor's buffer and the setting it reads), and what it
\* returned.
NoProcess == [pc |-> "none", data |-> NoData, path |-> NoPath,
              setting |-> FALSE, threw |-> FALSE, result |-> << >>]

\* modalLast: op is the operation on the Modal that ran last; for a click,
\* target tells whether it hit the inner element, sameTick whether it is
\* the click whose handling showed the modal, and mounted whether the
\* inner element was mounted when the click reached window.
NoModalOp == [op |-> "none", target |-> "none", sameTick |-> FALSE,
              mounted |-> FALSE]

\* Everything but the arguments of a call of _processDiagnostics on its own.
InitState ==
  /\ deviceTaskCache = [key \in DeviceKeys |-> NoTask]
  /\ factoryRuns = [key \in DeviceKeys |-> 0]
  /\ fetches = << >>
  /\ deviceJobs = << >>
  /\ setDevices = 0
  /\ deviceTasks = << >>
  /\ returned = NoReturn
  /\ subscriptions = Null
  /\ gkEnabled = FALSE
  /\ gkCallbackGiven = FALSE
  /\ whenFocused = FALSE
  /\ onlyNativeFriendly = TRUE
  /\ focused = TRUE
  /\ nativeNotifications = << >>
  /\ notified = NoNotification
  /\ editors = [e \in Editors |-> [path |-> EditorPath(e), destroyed |-> FALSE]]
  /\ defaultDiagnostics = FALSE
  /\ lints = << >>
  /\ linted = NoLint
  /\ panel = "none"
  /\ innerElement = "none"
  /\ cancelDisposable = "none"
  /\ commandListener = FALSE
  /\ clickSubscription = "none"
  /\ activeElement = "body"
  /\ dismissals = 0
  /\ modalLast = NoModalOp
  /\ webview = Null
  /\ cache = [t \in Tables |-> EmptyTable]
  /\ deferreds = << >>
  /\ callers = << >>
  /\ queue = << >>
  /\ draining = FALSE
  /\ written = << >>
  /\ warned = << >>
  /\ listeners = [w \in Webviews |-> 0]
  /\ cleanupDisposables = [disposed |-> FALSE, items |-> [w \in Webviews |-> 0]]
  /\ timers = 0
  /\ inflight = [t \in Tables |-> [k \in Keys |-> << >>]]
  /\ last = NoOp
  /\ disposables = [disposed |-> FALSE]
  /\ suppressBreakpointSync = FALSE

Init ==
  /\ InitState
  /\ processed = NoProcess

\* ------------------------------------------------------------- promises
\* Deferred of commons-node/promise: a native Promise with its resolve and
\* reject functions.  Settling a settled promise has no effect.
NewDeferred == [state |-> "pending", value |-> Null]

IsSettled(d) == deferreds[d].state # "pending"

DeferredSettle(ds, d, state, value) ==
  IF ds[d].state = "pending"
    THEN [ds EXCEPT ![d] = [state |-> state, value |-> value]]
    ELSE ds

ResumeJob(c) == [job |-> "resume", caller |-> c]
ObserveJob(c) == [job |-> "observe", caller |-> c]
\* A promise job of a user of the Bridge that will call getProperties.
CallJob(objectId) == [job |-> "call", caller |-> 0, key |-> objectId]

\* The callers suspended at `yield deferred.promise` on deferred d, in the
\* order in which they registered their reactions.
Awaiting(d) ==
  SelectSeq([i \in 1..Len(callers) |-> i],
            LAMBDA i: callers[i].deferred = d /\ callers[i].pc = "awaiting")

\* Settling a pending promise queues one job per registered reaction.
ReactionJobs(d) ==
  IF IsSettled(d) THEN << >>
  ELSE [j \in 1..Len(Awaiting(d)) |-> ResumeJob(Awaiting(d)[j])]

CallersAfterSettle(d) ==
  IF IsSettled(d) THEN callers
  ELSE [i \in 1..Len(callers) |->
          IF callers[i].deferred = d /\ callers[i].pc = "awaiting"
            THEN [callers[i] EXCEPT !.pc = "queued"]
            ELSE callers[i]]

\* A finished call and an unreachable Deferred.
Done == [api |-> Null, table |-> Null, command |-> Null, value |-> Null,
         group |-> Null, deferred |-> NoDeferred, pc |-> "done",
         outcome |-> Null]
Collected == [state |-> "collected", value |-> Null]

Referenced(d, ch, cl) ==
  \/ \E t \in Tables, k \in Keys : ch[t][k] = d
  \/ \E i \in 1..Len(cl) : cl[i].deferred = d /\ cl[i].pc # "done"

Collect(ds, ch, cl) ==
  [d \in 1..Len(ds) |-> IF Referenced(d, ch, cl) THEN ds[d] ELSE Collected]

\* normalizeRemoteObjectValue of ./normalizeRemoteObjectValue: a null remote
\* object stays null, another one stays the same object for the caller.
normalizeRemoteObjectValue(result) ==
  IF result = Null THEN Null ELSE result

\* `'Failed to evaluate: ' + expression`
FailedToEvaluate(expression) == "Failed to evaluate: " \o expression

\* Variant: the check of the webview is missing.
DisconnectedNever == FALSE

\* ------------------------------------------------------------------ send
\* `if (webview == null) return null;`
Disconnected == webview = Null

\* Variant: the table is never consulted, every call creates a Deferred.
CacheHasNever(table, value) == FALSE

\* `cache.has(value)`
CacheHas(table, value) == cache[table][value] # NoDeferred

\* Variant: the entry is not deleted on completion.
CacheDeleteNothing(table, value) == cache

\* `cache.delete(value)`
CacheDelete(table, value) == [cache EXCEPT ![table][value] = NoDeferred]

\* Variant: no try/catch around the await, a rejection is rethrown.
AwaitResultRethrow(df) == IF df.state = "rejected" THEN Rejected ELSE df.value

\* `try { result = yield deferred.promise; } catch (e) { ...; result = null; }`
AwaitResult(df) == IF df.state = "rejected" THEN Null ELSE df.value

\* Bridge._cachedSendCommand up to its first suspension: returns null when
\* there is no webview, reuses the Deferred of the table, or creates one,
\* stores it and writes the command.  throws: webview.send raises, which
\* rejects the promise of the async function.  jobs are the promise jobs
\* that are queued when the call is made.
CachedSendCommandFrom(jobs, api, table, command, value, group, throws) ==
  LET c == Len(callers) + 1
      base == [api |-> api, table |-> table, command |-> command,
               value |-> value, group |-> group, deferred |-> NoDeferred,
               pc |-> "returned", outcome |-> Null]
      lst == [NoOp EXCEPT !.op = "send", !.api = api, !.table = table,
                          !.key = value]
  IN
  /\ IF Disconnected THEN
       /\ callers' = Append(callers, base)
       /\ queue' = Append(jobs, ObserveJob(c))
       /\ written' = << >>
       /\ last' = lst
       /\ UNCHANGED <<cache, deferreds, inflight>>
     ELSE IF CacheHas(table, value) THEN
       LET d == cache[table][value] IN
       /\ callers' = Append(callers,
            [base EXCEPT !.deferred = d, !.outcome = Unsettled,
                         !.pc = IF IsSettled(d) THEN "queued" ELSE "awaiting"])
       /\ queue' = IF IsSettled(d) THEN Append(jobs, ResumeJob(c)) ELSE jobs
       /\ written' = << >>
       /\ last' = [lst EXCEPT !.hit = TRUE, !.deferred = d]
       /\ UNCHANGED <<cache, deferreds, inflight>>
     ELSE
       LET d == Len(deferreds) + 1 IN
       /\ deferreds' = Append(deferreds, NewDeferred)
       /\ cache' = [cache EXCEPT ![table][value] = d]
       /\ IF throws THEN
            /\ callers' = Append(callers, [base EXCEPT !.outcome = Rejected])
            /\ queue' = Append(jobs, ObserveJob(c))
            /\ written' = << >>
            /\ last' = [lst EXCEPT !.threw = TRUE, !.deferred = d]
            /\ UNCHANGED inflight
          ELSE
            /\ written' = <<[webview |-> webview, command |-> command,
                             value |-> value, group |-> group]>>
            /\ inflight' = [inflight EXCEPT ![table][value] = Append(@, d)]
            /\ callers' = Append(callers,
                 [base EXCEPT !.deferred = d, !.outcome = Unsettled,
                              !.pc = "awaiting"])
            /\ queue' = jobs
            /\ last' = [lst EXCEPT !.fresh = TRUE, !.deferred = d]
  /\ warned' = << >>
  /\ draining' = (queue' # << >>)
  /\ UNCHANGED <<webview, listeners, cleanupDisposables, timers>>
  /\ UNCHANGED breakpointVars
  /\ UNCHANGED outsideVars

\* A call of _cachedSendCommand that starts a task.
CachedSendCommand(api, table, command, value, group, throws) ==
  /\ ~draining
  /\ Len(callers) < MaxCallers
  /\ CachedSendCommandFrom(queue, api, table, command, value, group, throws)

evaluateOnSelectedCallFrame(api, expression, objectGroup, throws) ==
  CachedSendCommand(api, ExpressionsInFlight, "evaluateOnSelectedCallFrame",
                    expression, objectGroup, throws)

getProperties(objectId, throws) ==
  CachedSendCommand("getProperties", GetPropertiesRequestsInFlight,
                    "getProperties", objectId, Null, throws)

evaluateWatchExpression(expression, throws) ==
  evaluateOnSelectedCallFrame("evaluateWatchExpression", expression,
                              "watch-group", throws)

\* Bridge._runtimeEvaluate: the command carries the expression only.
runtimeEvaluate(api, expression, throws) ==
  CachedSendCommand(api, ExpressionsInFlight, "runtimeEvaluate", expression,
                    Null, throws)

\* What getDebuggerMode() of the store can return.
DebuggerModes == {"starting", "running", "paused", "stopping", "stopped"}

\* Bridge.evaluateConsoleExpression: on the selected call frame when the
\* debugger is paused, in the runtime otherwise.
evaluateConsoleExpression(expression, mode, throws) ==
  IF mode = "paused"
    THEN evaluateOnSelectedCallFrame("evaluateConsoleExpression", expression,
                                     "console", throws)
    ELSE runtimeEvaluate("evaluateConsoleExpression", expression, throws)

\* The rest of _cachedSendCommand, run as a promise job once the Deferred
\* is settled: a rejection is logged and becomes null, the entry of the
\* key is deleted and the result returned.
Resume(c) ==
  LET cl == callers[c]
      df == deferreds[cl.deferred]
  IN
  /\ warned' = IF df.state = "rejected"
                 THEN <<[command |-> cl.command, error |-> df.value]>>
                 ELSE << >>
  /\ cache' = CacheDelete(cl.table, cl.value)
  /\ callers' = [callers EXCEPT ![c].pc = "returned",
                                ![c].outcome = AwaitResult(df)]
  /\ queue' = Append(Tail(queue), ObserveJob(c))
  /\ deferreds' = Collect(deferreds, cache', callers')
  /\ last' = [NoOp EXCEPT !.op = "resume", !.api = cl.api,
                          !.table = cl.table, !.key = cl.value,
                          !.deferred = cl.deferred]
  /\ UNCHANGED inflight

\* What the public method hands to its caller: getProperties the outcome,
\* _evaluateOnSelectedCallFrame the outcome or its replacement for null.
FinalResult(cl) ==
  IF cl.api = "getProperties" \/ cl.outcome = Rejected THEN cl.outcome
  ELSE IF cl.outcome = Null THEN FailedToEvaluate(cl.value)
  ELSE cl.outcome

\* The caller of _cachedSendCommand sees the outcome.
Observe(c) ==
  LET cl == callers[c] IN
  /\ callers' = [callers EXCEPT ![c] = Done]
  /\ queue' = Tail(queue)
  /\ deferreds' = Collect(deferreds, cache, callers')
  /\ last' = [NoOp EXCEPT !.op = "observe", !.api = cl.api,
                          !.table = cl.table, !.key = cl.value,
                          !.deferred = cl.deferred, !.outcome = cl.outcome,
                          !.final = FinalResult(cl)]
  /\ warned' = << >>
  /\ UNCHANGED <<cache, inflight>>

\* The calls made and the promise jobs scheduled by the users of the
\* Bridge that have not run yet.
UserJobs == SelectSeq(queue, LAMBDA j : j.job = "call")

\* The task that made the last call, or scheduled the last job, is still
\* running: no promise job has run since.
InTask == last.op \in {"send", "schedule"}

\* A second call of getProperties by the task that made the last call.
getPropertiesInTask(objectId, throws) ==
  /\ draining
  /\ InTask
  /\ Len(callers) + Len(UserJobs) < MaxCalls
  /\ CachedSendCommandFrom(queue, "getProperties",
                           GetPropertiesRequestsInFlight, "getProperties",
                           objectId, Null, throws)

\* A user of the Bridge schedules a promise job that will call
\* getProperties, such as `promise.then(() => bridge.getProperties(id))`
\* on a resolved promise.
scheduleGetProperties(objectId) ==
  /\ ~draining \/ InTask
  /\ Len(UserJobs) < MaxUserJobs
  /\ Len(callers) + Len(UserJobs) < MaxCalls
  /\ queue' = Append(queue, CallJob(objectId))
  /\ draining' = TRUE
  /\ last' = [NoOp EXCEPT !.op = "schedule", !.api = "getProperties",
                          !.table = GetPropertiesRequestsInFlight,
                          !.key = objectId]
  /\ written' = << >>
  /\ warned' = << >>
  /\ UNCHANGED <<webview, cache, deferreds, callers, listeners,
                 cleanupDisposables, timers, inflight>>
  /\ UNCHANGED breakpointVars
  /\ UNCHANGED outsideVars

\* The promise job of a user runs: it calls getProperties.
RunUserJob ==
  /\ queue # << >>
  /\ Head(queue).job = "call"
  /\ \E throws \in BOOLEAN :
       CachedSendCommandFrom(Tail(queue), "getProperties",
                             GetPropertiesRequestsInFlight, "getProperties",
                             Head(queue).key, Null, throws)

\* One promise job.  The queue is drained before the next task starts.
RunJob ==
  /\ queue # << >>
  /\ Head(queue).job \in {"resume", "observe"}
  /\ IF Head(queue).job = "resume"
       THEN Resume(Head(queue).caller)
       ELSE Observe(Head(queue).caller)
  /\ draining' = (queue' # << >>)
  /\ written' = << >>
  /\ UNCHANGED <<webview, listeners, cleanupDisposables, timers>>
  /\ UNCHANGED breakpointVars
  /\ UNCHANGED outsideVars

\* --------------------------------------------------------------- deliver
\* A response: the fields result and error, and the field that carries the
\* correlation key (expression or objectId); emitter is the webview that
\* emitted the ipc-message event carrying it.
Responses == [result : Results \cup {Null}, error : Errors \cup {Null},
              key : Keys, emitter : Webviews]

\* `if (error != null) deferred.reject(error); else deferred.resolve(result);`
SettleWith(response) ==
  IF response.error # Null
    THEN [state |-> "rejected", value |-> response.error]
    ELSE [state |-> "resolved", value |-> response.result]

\* Variant: the early return for a missing Deferred is missing.
NobodyListeningNever(d) == FALSE

\* `if (deferred == null) return;`
NobodyListening(d) == d = NoDeferred

\* The webview answers the commands for one key in the order in which
\* they were written: a response answers the oldest command not answered.
\* Bridge._handleResponseForPendingRequest: looks the key up, returns when
\* nobody is listening, else rejects with the error or resolves with the
\* result.  The entry stays in the table.  (Calling reject or resolve on a
\* missing Deferred would raise a TypeError.)
HandleResponseForPendingRequest(notification, pending, response, key) ==
  LET d == cache[pending][key]
      lst == [NoOp EXCEPT !.op = "deliver", !.api = notification,
                          !.table = pending, !.key = key,
                          !.emitter = response.emitter]
  IN
  /\ IF NobodyListening(d) THEN
       /\ UNCHANGED <<deferreds, callers, queue>>
       /\ last' = lst
     ELSE IF d = NoDeferred THEN
       /\ UNCHANGED <<deferreds, callers, queue>>
       /\ last' = [lst EXCEPT !.threw = TRUE]
     ELSE
       /\ deferreds' = DeferredSettle(deferreds, d, SettleWith(response).state,
                                      SettleWith(response).value)
       /\ callers' = CallersAfterSettle(d)
       /\ queue' = queue \o ReactionJobs(d)
       /\ last' = IF IsSettled(d)
                    THEN [lst EXCEPT !.hit = TRUE, !.deferred = d]
                    ELSE [lst EXCEPT !.hit = TRUE, !.fresh = TRUE,
                                     !.deferred = d,
                                     !.outcome = response.result,
                                     !.error = response.error]
  /\ inflight' = [inflight EXCEPT
                     ![pending][key] = IF @ # << >> THEN Tail(@) ELSE @]
  /\ written' = << >>
  /\ warned' = << >>
  /\ draining' = (queue' # << >>)
  /\ UNCHANGED <<webview, cache, listeners, cleanupDisposables, timers>>
  /\ UNCHANGED breakpointVars
  /\ UNCHANGED outsideVars

\* Variant: the response is looked up in the getProperties table.
handleExpressionEvaluationResponseInProperties(response) ==
  HandleResponseForPendingRequest(
    "ExpressionEvaluationResponse", GetPropertiesRequestsInFlight,
    [response EXCEPT !.result = normalizeRemoteObjectValue(response.result)],
    response.key)

\* Bridge._handleExpressionEvaluationResponse
handleExpressionEvaluationResponse(response) ==
  HandleResponseForPendingRequest(
    "ExpressionEvaluationResponse", ExpressionsInFlight,
    [response EXCEPT !.result = normalizeRemoteObjectValue(response.result)],
    response.key)

\* Variant: the response is looked up in the expression table.
handleGetPropertiesResponseInExpressions(response) ==
  HandleResponseForPendingRequest(
    "GetPropertiesResponse", ExpressionsInFlight, response, response.key)

\* Bridge._handleGetPropertiesResponse
handleGetPropertiesResponse(response) ==
  HandleResponseForPendingRequest(
    "GetPropertiesResponse", GetPropertiesRequestsInFlight, response,
    response.key)

\* `this._debuggerModel.getActions().setDebuggerMode(mode)`, called while
\* the tables are ch.
setDebuggerMode(mode, ch) ==
  [mode |-> mode, expressions |-> ch[ExpressionsInFlight]]

\* Variant: the expression table is left as it is.
ExpressionsKept(ch) == ch

\* `this._expressionsInFlight.clear()`
ExpressionsCleared(ch) == [ch EXCEPT ![ExpressionsInFlight] = EmptyTable]

\* Bridge._handleDebuggerPaused: empties the expression table, then
\* dispatches the action that sets the mode of the store to PAUSED.  No
\* Deferred is settled.
handleDebuggerPaused ==
  /\ cache' = ExpressionsCleared(cache)
  /\ deferreds' = Collect(deferreds, cache', callers)
  /\ last' = [NoOp EXCEPT !.op = "paused", !.api = "NonLoaderDebuggerPaused",
                          !.table = ExpressionsInFlight,
                          !.hit = cache[ExpressionsInFlight] # EmptyTable,
                          !.dispatched = setDebuggerMode("paused", cache')]
  /\ written' = << >>
  /\ warned' = << >>
  /\ UNCHANGED <<webview, callers, queue, draining, listeners,
                 cleanupDisposables, timers, inflight>>
  /\ UNCHANGED breakpointVars
  /\ UNCHANGED outsideVars

\* Bridge._handleIpcMessage for an event of a webview that has a handler
\* attached: the notifications that reach the tables.
handleIpcMessage(w) ==
  /\ ~draining
  /\ listeners[w] > 0
  /\ \/ \E response \in Responses :
          response.emitter = w /\ handleExpressionEvaluationResponse(response)
     \/ \E response \in Responses :
          response.emitter = w /\ handleGetPropertiesResponse(response)
     \/ handleDebuggerPaused

\* The notifications of _handleIpcMessage that only reach the model and
\* the store of the debugger.
StoreNotifications ==
  {"CallFrameSelected", "OpenSourceLocation", "ClearInterface",
   "DebuggerResumed", "LoaderBreakpointResumed", "CallstackUpdate",
   "LocalsUpdate", "ThreadsUpdate", "StopThreadSwitch"}

\* Bridge._handleIpcMessage for one of these notifications: it calls an
\* action or the store; _handleDebuggerResumed sets the mode to RUNNING.
handleStoreNotification(w, notification) ==
  /\ ~draining
  /\ listeners[w] > 0
  /\ last' = [NoOp EXCEPT
                !.op = "notify", !.api = notification,
                !.dispatched = IF notification = "DebuggerResumed"
                                 THEN setDebuggerMode("running", cache)
                                 ELSE NoDispatch]
  /\ written' = << >>
  /\ warned' = << >>
  /\ UNCHANGED <<webview, cache, deferreds, callers, queue, draining,
                 listeners, cleanupDisposables, timers, inflight>>
  /\ UNCHANGED breakpointVars
  /\ UNCHANGED outsideVars

\* ------------------------------------------------------------- lifecycle
\* Bridge.setWebviewElement: stores the webview, attaches a new bound
\* handler and registers its removal with _cleanupDisposables (add has no
\* effect on a disposed CompositeDisposable).
setWebviewElement(w) ==
  /\ ~draining
  /\ listeners[w] < MaxListeners
  /\ webview' = w
  /\ listeners' = [listeners EXCEPT ![w] = @ + 1]
  /\ cleanupDisposables' =
       IF cleanupDisposables.disposed THEN cleanupDisposables
       ELSE [cleanupDisposables EXCEPT !.items[w] = @ + 1]
  /\ last' = [NoOp EXCEPT !.op = "attach", !.api = "setWebviewElement"]
  /\ written' = << >>
  /\ warned' = << >>
  /\ UNCHANGED <<cache, deferreds, callers, queue, draining, timers, inflight>>
  /\ UNCHANGED breakpointVars
  /\ UNCHANGED outsideVars

\* Variant: the callback is not scheduled.
setTimeoutDropped(ts) == ts

\* `setTimeout(function () { ...clearInterface(); })`: one more callback
\* waits for a later task.
setTimeout(ts) == ts + 1

\* Variant: cleanup also empties the two tables of requests in flight.
CleanupClearingTables(api) ==
  /\ ~draining
  /\ timers < MaxTimers
  /\ listeners' = IF cleanupDisposables.disposed THEN listeners
                  ELSE [w \in Webviews |->
                          listeners[w] - cleanupDisposables.items[w]]
  /\ cleanupDisposables' = [disposed |-> TRUE, items |-> [w \in Webviews |-> 0]]
  /\ webview' = Null
  /\ timers' = setTimeout(timers)
  /\ last' = [NoOp EXCEPT !.op = "cleanup", !.api = api]
  /\ written' = << >>
  /\ warned' = << >>
  /\ cache' = [t \in Tables |-> EmptyTable]
  /\ UNCHANGED <<deferreds, callers, queue, draining, inflight>>
  /\ UNCHANGED suppressBreakpointSync
  /\ UNCHANGED outsideVars

\* The body of Bridge.cleanup: disposes _cleanupDisposables (removing the
\* handlers it holds), clears the webview and schedules clearInterface.
Cleanup(api) ==
  /\ ~draining
  /\ timers < MaxTimers
  /\ listeners' = IF cleanupDisposables.disposed THEN listeners
                  ELSE [w \in Webviews |->
                          listeners[w] - cleanupDisposables.items[w]]
  /\ cleanupDisposables' = [disposed |-> TRUE, items |-> [w \in Webviews |-> 0]]
  /\ webview' = Null
  /\ timers' = setTimeout(timers)
  /\ last' = [NoOp EXCEPT !.op = "cleanup", !.api = api]
  /\ written' = << >>
  /\ warned' = << >>
  /\ UNCHANGED <<cache, deferreds, callers, queue, draining, inflight>>
  /\ UNCHANGED suppressBreakpointSync
  /\ UNCHANGED outsideVars

\* Bridge.cleanup
cleanup ==
  /\ Cleanup("cleanup")
  /\ UNCHANGED disposables

\* Bridge.dispose: cleanup(), then the subscription to the breakpoint
\* store's user changes is disposed.
dispose ==
  /\ Cleanup("dispose")
  /\ disposables' = [disposed |-> TRUE]

\* The setTimeout callback of cleanup: a task of its own, it dispatches
\* clearInterface.
clearInterfaceTimer ==
  /\ ~draining
  /\ queue = << >>
  /\ timers > 0
  /\ timers' = timers - 1
  /\ last' = [NoOp EXCEPT !.op = "clearInterface"]
  /\ written' = << >>
  /\ warned' = << >>
  /\ UNCHANGED <<webview, cache, deferreds, callers, queue, draining,
                 listeners, cleanupDisposables, inflight>>
  /\ UNCHANGED breakpointVars
  /\ UNCHANGED outsideVars

\* ------------------------------------------------- commands without reply
ActionIds == {"a1"}             \* ids of debugger actions
ThreadIds == {"t1"}             \* ids of threads
SettingsData == {"s1"}          \* getSettings().getSerializedData()
Paths == {"p1"}                 \* paths of files with breakpoints
Lines == {"l1"}                 \* line numbers of breakpoints
Breakpoints == [path : Paths, line : Lines]
BreakpointActions == {"AddBreakpoint", "DeleteBreakpoint"}

\* nuclideUri.nuclideUriToUri of commons-node/nuclideUri: the URI of a path.
nuclideUriToUri(path) == <<"uri", path>>

\* Variant: the command is written without a look at the webview.
HasWebviewAlways == TRUE

\* `if (this._webview)`, `if (webview != null)`
HasWebview == webview # Null

\* The messages of the commands without reply: the command alone or with
\* an id or the settings, the command with a flag, and the command with the
\* location of a breakpoint.
Command(command, arg) ==
  [webview |-> webview, command |-> command, value |-> arg, group |-> Null]
CommandWithFlag(command, enabled) ==
  [webview |-> webview, command |-> command, enabled |-> enabled]
Location(breakpoint) ==
  [sourceURL |-> nuclideUriToUri(breakpoint.path),
   lineNumber |-> breakpoint.line]
CommandWithLocation(command, breakpoint) ==
  [webview |-> webview, command |-> command,
   sourceURL |-> Location(breakpoint).sourceURL,
   lineNumber |-> Location(breakpoint).lineNumber]

\* `webview.send('command', ...)` behind the check of the webview: the
\* messages one such statement writes.
SendCommand(message) == IF HasWebview THEN <<message>> ELSE << >>

\* A public method that writes one command and keeps no state.
PlainCommand(method, message) ==
  /\ ~draining
  /\ written' = SendCommand(message)
  /\ warned' = << >>
  /\ last' = [NoOp EXCEPT !.op = "command", !.api = method]
  /\ UNCHANGED <<webview, cache, deferreds, callers, queue, draining,
                 listeners, cleanupDisposables, timers, inflight>>
  /\ UNCHANGED breakpointVars
  /\ UNCHANGED outsideVars

continue == PlainCommand("continue", Command("Continue", Null))
stepOver == PlainCommand("stepOver", Command("StepOver", Null))
stepInto == PlainCommand("stepInto", Command("StepInto", Null))
stepOut == PlainCommand("stepOut", Command("StepOut", Null))
triggerAction(actionId) ==
  PlainCommand("triggerAction", Command("triggerDebuggerAction", actionId))
setPauseOnException(pauseOnExceptionEnabled) ==
  PlainCommand("setPauseOnException",
               CommandWithFlag("setPauseOnException", pauseOnExceptionEnabled))
setPauseOnCaughtException(pauseOnCaughtExceptionEnabled) ==
  PlainCommand("setPauseOnCaughtException",
               CommandWithFlag("setPauseOnCaughtException",
                               pauseOnCaughtExceptionEnabled))
setSingleThreadStepping(singleThreadStepping) ==
  PlainCommand("setSingleThreadStepping",
               CommandWithFlag("setSingleThreadStepping", singleThreadStepping))
selectThread(threadId) ==
  PlainCommand("selectThread", Command("selectThread", threadId))

\* Bridge._updateDebuggerSettings
updateDebuggerSettings(settings) ==
  SendCommand(Command("UpdateSettings", settings))

\* Bridge._sendAllBreakpoints: one SyncBreakpoints command with the file
\* and line of every breakpoint, unless the synchronisation is suppressed.
sendAllBreakpoints(breakpoints) ==
  IF HasWebview /\ ~suppressBreakpointSync
    THEN <<[webview |-> webview, command |-> "SyncBreakpoints",
            results |-> [i \in 1..Len(breakpoints) |->
                          Location(breakpoints[i])]]>>
    ELSE << >>

\* Bridge._syncDebuggerState
syncDebuggerState(store) ==
  SendCommand(CommandWithFlag("setPauseOnException", store.pauseOnException))
    \o SendCommand(CommandWithFlag("setPauseOnCaughtException",
                                   store.pauseOnCaughtException))
    \o SendCommand(CommandWithFlag("setSingleThreadStepping",
                                   store.singleThreadStepping))

\* What the store holds when the webview reports ready.
Stores == [settings : SettingsData,
           breakpoints : {<< >>} \cup {<<b>> : b \in Breakpoints},
           pauseOnException : BOOLEAN,
           pauseOnCaughtException : {FALSE},
           singleThreadStepping : {FALSE}]

\* The notification ready: settings, breakpoints and the stepping options
\* are written to the webview (the style sheet is inserted, not sent).
handleReady(store) ==
  /\ written' = updateDebuggerSettings(store.settings)
                  \o sendAllBreakpoints(store.breakpoints)
                  \o syncDebuggerState(store)
  /\ last' = [NoOp EXCEPT !.op = "ready", !.api = "ready"]
  /\ UNCHANGED suppressBreakpointSync

\* Bridge._bindBreakpoint and Bridge._removeBreakpoint: for a real file the
\* synchronisation is suppressed while the action is dispatched, and
\* enabled again whatever the dispatch does.
bindBreakpoint(notification, path) ==
  /\ suppressBreakpointSync' = IF path # Null THEN FALSE
                                ELSE suppressBreakpointSync
  /\ written' = << >>
  /\ last' = [NoOp EXCEPT !.op = "bind", !.api = notification]

\* Bridge._handleIpcMessage for the notifications that synchronise settings
\* and breakpoints.
handleIpcMessageSync(w) ==
  /\ ~draining
  /\ listeners[w] > 0
  /\ \/ \E store \in Stores : handleReady(store)
     \/ \E n \in {"BreakpointAdded", "BreakpointRemoved"},
           path \in Paths \cup {Null} : bindBreakpoint(n, path)
  /\ warned' = << >>
  /\ UNCHANGED <<webview, cache, deferreds, callers, queue, draining,
                 listeners, cleanupDisposables, timers, inflight, disposables>>
  /\ UNCHANGED outsideVars

\* Bridge._handleUserBreakpointChange, called by the breakpoint store while
\* the subscription of the constructor is not disposed.
handleUserBreakpointChange(params) ==
  /\ ~draining
  /\ ~disposables.disposed
  /\ written' = SendCommand(CommandWithLocation(params.action,
                                                params.breakpoint))
  /\ warned' = << >>
  /\ last' = [NoOp EXCEPT !.op = "breakpoint",
                          !.api = "_handleUserBreakpointChange"]
  /\ UNCHANGED <<webview, cache, deferreds, callers, queue, draining,
                 listeners, cleanupDisposables, timers, inflight>>
  /\ UNCHANGED breakpointVars
  /\ UNCHANGED outsideVars

\* ---------------------------------------------------------- device tasks
\* The order of the characters of a name.
Alphabet == <<"-", "a", "b", "d", "e", "h">>
Rank(ch) == CHOOSE i \in 1..Len(Alphabet) : Alphabet[i] = ch

\* a.localeCompare(b) on names: negative, zero or positive.
RECURSIVE localeCompare(_, _)
localeCompare(a, b) ==
  IF a = << >> /\ b = << >> THEN 0
  ELSE IF a = << >> THEN -1
  ELSE IF b = << >> THEN 1
  ELSE IF Rank(Head(a)) < Rank(Head(b)) THEN -1
  ELSE IF Rank(Head(a)) > Rank(Head(b)) THEN 1
  ELSE localeCompare(Tail(a), Tail(b))

\* One task put into a list sorted by name, behind the tasks of equal name.
RECURSIVE Insert(_, _)
Insert(task, sorted) ==
  IF sorted = << >> THEN <<task>>
  ELSE IF localeCompare(task.name, Head(sorted).name) < 0
    THEN <<task>> \o sorted
    ELSE <<Head(sorted)>> \o Insert(task, Tail(sorted))

\* `.sort((a, b) => a.getName().localeCompare(b.getName()))`
RECURSIVE SortByName(_)
SortByName(tasks) ==
  IF tasks = << >> THEN << >>
  ELSE Insert(tasks[Len(tasks)], SortByName(SubSeq(tasks, 1, Len(tasks) - 1)))

\* arrayCompact of nuclide-commons/collection: the entries that are not null.
arrayCompact(results) ==
  LET kept == SelectSeq(results, LAMBDA r : r.status = "task")
  IN [i \in 1..Len(kept) |-> kept[i].task]

\* What the async function of one provider has produced so far.
Waiting == [status |-> "waiting", task |-> NoTask]
NullResult == [status |-> "null", task |-> NoTask]
TaskResult(task) == [status |-> "task", task |-> task]

\* switchMap: a new SET_DEVICE unsubscribes from the calls in flight and
\* from the promises whose value has not been emitted.
Superseded(fs) == [f \in 1..Len(fs) |-> [fs[f] EXCEPT !.current = FALSE]]

RemoveAt(seq, f) == SubSeq(seq, 1, f - 1) \o SubSeq(seq, f + 1, Len(seq))

\* The promise jobs of one call of getDeviceTasks, in the order in which
\* they run: the reaction of Promise.all to its last element, the
\* continuation of getDeviceTasks after `await Promise.all(...)`, and the
\* reaction of Observable.fromPromise to the returned promise.  current
\* tells whether the epic is still subscribed to the call.
AllJob(state, results, current) ==
  [job |-> "all", state |-> state, results |-> results, tasks |-> << >>,
   current |-> current]
ContinueJob(state, results, current) ==
  [job |-> "continue", state |-> state, results |-> results, tasks |-> << >>,
   current |-> current]
EmitJob(state, tasks, current) ==
  [job |-> "emit", state |-> state, results |-> << >>, tasks |-> tasks,
   current |-> current]

\* setDeviceEpic on a SET_DEVICE action, for the device tasks: the switchMap
\* unsubscribes from the earlier call and getDeviceTasks is called with the
\* state of the store.  Without device the call returns the empty list at
\* once and its promise is emitted by a later promise job; without provider
\* of the device type the call suspends at `await Promise.all([])`;
\* otherwise every provider of the type waits for isSupported(host).
setDeviceEpic(state) ==
  LET providers == SelectSeq(Providers, LAMBDA p : p.type = state.deviceType)
  IN
  /\ Len(fetches) + Len(deviceJobs) < MaxFetches
  /\ setDevices < MaxSetDevices
  /\ setDevices' = setDevices + 1
  /\ IF state.device = NoDevice THEN
       /\ fetches' = Superseded(fetches)
       /\ returned' = [called |-> TRUE, state |-> state, tasks |-> << >>]
       /\ deviceJobs' = Append(Superseded(deviceJobs),
                               EmitJob(state, << >>, TRUE))
     ELSE IF providers = << >> THEN
       /\ fetches' = Superseded(fetches)
       /\ deviceJobs' = Append(Superseded(deviceJobs),
                               ContinueJob(state, << >>, TRUE))
       /\ UNCHANGED returned
     ELSE
       /\ fetches' = Append(Superseded(fetches),
                            [state |-> state, providers |-> providers,
                             results |-> [i \in 1..Len(providers) |-> Waiting],
                             current |-> TRUE])
       /\ deviceJobs' = Superseded(deviceJobs)
       /\ UNCHANGED returned
  /\ UNCHANGED <<deviceTaskCache, factoryRuns, deviceTasks>>
  /\ UNCHANGED notDeviceVars

\* Cache.has(key) of ../Cache.
CacheHasKey(key) == deviceTaskCache[key] # NoTask

\* getDeviceTasks after `await provider.isSupported(state.host)` of provider
\* i of call f: null when the provider is not supported or something
\* throws, else the task of the cache for the key, made by the factory when
\* the cache has none.  When it is the last provider of the call, the
\* reaction of Promise.all is queued.
isSupportedSettles(f, i, outcome) ==
  LET fe == fetches[f]
      provider == fe.providers[i]
      key == CacheKey(fe.state.host, fe.state.device.name, provider.name)
      task == IF CacheHasKey(key)
                THEN deviceTaskCache[key]
                ELSE DeviceTask(fe.state.host, fe.state.device.name,
                                provider.name, factoryRuns[key] + 1)
      results == [fe.results EXCEPT
                    ![i] = IF outcome = "supported" THEN TaskResult(task)
                           ELSE NullResult]
  IN
  /\ i \in 1..Len(fetches[f].providers)
  /\ fe.results[i] = Waiting
  /\ IF outcome = "supported" /\ ~CacheHasKey(key)
       THEN /\ deviceTaskCache' = [deviceTaskCache EXCEPT ![key] = task]
            /\ factoryRuns' = [factoryRuns EXCEPT ![key] = @ + 1]
       ELSE UNCHANGED <<deviceTaskCache, factoryRuns>>
  /\ IF \A j \in 1..Len(results) : results[j] # Waiting THEN
       /\ fetches' = RemoveAt(fetches, f)
       /\ deviceJobs' = Append(deviceJobs,
                               AllJob(fe.state, results, fe.current))
     ELSE
       /\ fetches' = [fetches EXCEPT ![f].results = results]
       /\ UNCHANGED deviceJobs
  /\ UNCHANGED <<setDevices, returned, deviceTasks>>
  /\ UNCHANGED notDeviceVars

\* The reaction of Promise.all to its last element: the promise of
\* Promise.all is resolved, which queues the continuation of getDeviceTasks.
promiseAllResolves ==
  /\ deviceJobs # << >>
  /\ Head(deviceJobs).job = "all"
  /\ deviceJobs' = Append(Tail(deviceJobs),
                          ContinueJob(Head(deviceJobs).state,
                                      Head(deviceJobs).results,
                                      Head(deviceJobs).current))
  /\ UNCHANGED <<deviceTaskCache, factoryRuns, fetches, setDevices, returned,
                 deviceTasks>>
  /\ UNCHANGED notDeviceVars

\* getDeviceTasks after `await Promise.all(...)`: the results are compacted,
\* sorted by name and returned, which queues the reaction of fromPromise.
getDeviceTasksReturns ==
  LET j == Head(deviceJobs)
      tasks == SortByName(arrayCompact(j.results))
  IN
  /\ deviceJobs # << >>
  /\ j.job = "continue"
  /\ returned' = [called |-> TRUE, state |-> j.state, tasks |-> tasks]
  /\ deviceJobs' = Append(Tail(deviceJobs), EmitJob(j.state, tasks, j.current))
  /\ UNCHANGED <<deviceTaskCache, factoryRuns, fetches, setDevices, deviceTasks>>
  /\ UNCHANGED notDeviceVars

\* The reaction of Observable.fromPromise: the tasks are emitted and the
\* epic dispatches setDeviceTasks, unless a later SET_DEVICE has
\* unsubscribed from the call.
setDeviceTasksEmits ==
  /\ deviceJobs # << >>
  /\ Head(deviceJobs).job = "emit"
  /\ deviceTasks' = IF Head(deviceJobs).current
                      THEN Head(deviceJobs).tasks
                      ELSE deviceTasks
  /\ deviceJobs' = Tail(deviceJobs)
  /\ UNCHANGED <<deviceTaskCache, factoryRuns, fetches, setDevices, returned>>
  /\ UNCHANGED notDeviceVars

\* -------------------------------------------------- native notifications
\* Texts are sequences of characters.
NotificationTypes == {<<"i", "n", "f", "o">>, <<"e", "r", "r", "o", "r">>,
                      <<"w", "a", "r", "n", "i", "n", "g">>,
                      <<"s", "u", "c", "c", "e", "s", "s">>,
                      <<"f", "a", "t", "a", "l">>,
                      <<"é", "t", "a", "t">>, <<"ß">>}
Messages == {<<"m">>}
Details == {<<"d">>, << >>}
Titles == {<<"t">>}

\* An Atom notification: getType(), getMessage() and getOptions().
AtomNotifications == [type : NotificationTypes, message : Messages,
                      nativeFriendly : BOOLEAN, detail : Details]

\* String.prototype.toUpperCase on one character, for the letters up to
\* U+00FF whose capital is below U+0100 and the characters listed that have
\* no upper case: the text of the capital, which is two characters for the
\* sharp s.
toUpperCase(ch) ==
  LET lower == <<"a", "b", "c", "d", "e", "f", "g", "h", "i", "j", "k", "l",
                 "m", "n", "o", "p", "q", "r", "s", "t", "u", "v", "w", "x",
                 "y", "z", "à", "á", "â", "ã", "ä", "å", "æ", "ç", "è", "é",
                 "ê", "ë", "ì", "í", "î", "ï", "ð", "ñ", "ò", "ó", "ô", "õ",
                 "ö", "ø", "ù", "ú", "û", "ü", "ý", "þ">>
      upper == <<"A", "B", "C", "D", "E", "F", "G", "H", "I", "J", "K", "L",
                 "M", "N", "O", "P", "Q", "R", "S", "T", "U", "V", "W", "X",
                 "Y", "Z", "À", "Á", "Â", "Ã", "Ä", "Å", "Æ", "Ç", "È", "É",
                 "Ê", "Ë", "Ì", "Í", "Î", "Ï", "Ð", "Ñ", "Ò", "Ó", "Ô", "Õ",
                 "Ö", "Ø", "Ù", "Ú", "Û", "Ü", "Ý", "Þ">>
      caseless == {"0", "1", "2", "3", "4", "5", "6", "7", "8", "9", " ",
                   "-", "_", ".", ":"}
  IN CASE \E i \in 1..Len(lower) : lower[i] = ch ->
            <<upper[CHOOSE i \in 1..Len(lower) : lower[i] = ch]>>
       [] ch = "ß" -> <<"S", "S">>
       [] \E i \in 1..Len(upper) : upper[i] = ch -> <<ch>>
       [] ch \in caseless -> <<ch>>

\* upperCaseFirst: `'' + str[0].toUpperCase() + str.slice(1)`
upperCaseFirst(str) == toUpperCase(str[1]) \o SubSeq(str, 2, Len(str))

Icon == "atom://nuclide/pkg/nuclide-notifications/notification.png"

\* `if (!gkEnabled) return;`
PassesGatekeeper == gkEnabled

\* Variant: a focused window never keeps the notification back.
FocusAllowsAlways == TRUE

\* `if (!featureConfig.get('nuclide-notifications.whenFocused') &&
\*      remote.getCurrentWindow().isFocused()) return;`
FocusAllows == ~(~whenFocused /\ focused)

\* The body of raiseNativeNotification: the Notification objects it creates.
NewNotifications(title, body) ==
  IF ~PassesGatekeeper THEN << >>
  ELSE IF ~FocusAllows THEN << >>
  ELSE <<[title |-> title, body |-> body, icon |-> Icon]>>

\* raiseNativeNotification, as a service (provideRaiseNativeNotification)
\* and as called by proxyToNativeNotification.
RaiseNativeNotification(op, title, body) ==
  /\ nativeNotifications' = NewNotifications(title, body)
  /\ notified' = [NoNotification EXCEPT !.op = op, !.title = title,
                                        !.body = body]
  /\ UNCHANGED <<subscriptions, gkEnabled, gkCallbackGiven, whenFocused,
                 onlyNativeFriendly, focused>>
  /\ UNCHANGED notNotificationVars

raiseNativeNotification(title, body) ==
  RaiseNativeNotification("raise", title, body)

\* proxyToNativeNotification, the listener of onDidAddNotification while
\* the package is active: a notification that is not native friendly is
\* dropped when the user wants only native friendly ones.
proxyToNativeNotification(notification) ==
  /\ subscriptions # Null
  /\ IF ~notification.nativeFriendly /\ onlyNativeFriendly THEN
       /\ nativeNotifications' = << >>
       /\ notified' = [NoNotification EXCEPT !.op = "dropped"]
       /\ UNCHANGED <<subscriptions, gkEnabled, gkCallbackGiven, whenFocused,
                 onlyNativeFriendly, focused>>
       /\ UNCHANGED notNotificationVars
     ELSE
       RaiseNativeNotification(
         "proxy",
         upperCaseFirst(notification.type) \o <<":", " ">>
           \o notification.message,
         notification.detail)

\* activate: subscribes to Atom's notifications and gives the gatekeeper
\* the callback to call once it has initialised.
activate ==
  /\ subscriptions = Null
  /\ subscriptions' = "subscribed"
  /\ gkCallbackGiven' = TRUE
  /\ nativeNotifications' = << >>
  /\ notified' = [NoNotification EXCEPT !.op = "activate"]
  /\ UNCHANGED <<gkEnabled, whenFocused, onlyNativeFriendly, focused>>
  /\ UNCHANGED notNotificationVars

\* deactivate: disposes the subscriptions and forgets them; gkEnabled
\* keeps its value.  What disposing of the value that onceGkInitialized
\* returned does is the gatekeeper's matter: the callback may still be
\* called.
deactivate ==
  /\ subscriptions # Null
  /\ subscriptions' = Null
  /\ UNCHANGED gkCallbackGiven
  /\ nativeNotifications' = << >>
  /\ notified' = [NoNotification EXCEPT !.op = "deactivate"]
  /\ UNCHANGED <<gkEnabled, whenFocused, onlyNativeFriendly, focused>>
  /\ UNCHANGED notNotificationVars

\* The callback given to onceGkInitialized, called by the gatekeeper:
\* `gkEnabled = isGkEnabled('nuclide_native_notifications')`.  enabled is
\* what isGkEnabled returns.  When and how often the gatekeeper calls the
\* callback is not decided by this package: any call after activate has
\* handed the callback over is possible.
onceGkInitializedCallback(enabled) ==
  /\ gkCallbackGiven
  /\ UNCHANGED gkCallbackGiven
  /\ gkEnabled' = enabled
  /\ nativeNotifications' = << >>
  /\ notified' = [NoNotification EXCEPT !.op = "callback",
                                        !.reported = enabled]
  /\ UNCHANGED <<subscriptions, whenFocused, onlyNativeFriendly, focused>>
  /\ UNCHANGED notNotificationVars

\* The user changes a setting, or the window gets or loses the focus.
environmentChanges ==
  /\ \/ whenFocused' = ~whenFocused
        /\ UNCHANGED <<onlyNativeFriendly, focused>>
     \/ onlyNativeFriendly' = ~onlyNativeFriendly
        /\ UNCHANGED <<whenFocused, focused>>
     \/ focused' = ~focused
        /\ UNCHANGED <<whenFocused, onlyNativeFriendly>>
  /\ nativeNotifications' = << >>
  /\ notified' = [NoNotification EXCEPT !.op = "environment"]
  /\ UNCHANGED <<subscriptions, gkEnabled, gkCallbackGiven>>
  /\ UNCHANGED notNotificationVars

\* ---------------------------------------------------------- clang linter
\* Positions of the clang service: a file, a line and a column; the line is
\* -1 where clang knows none.
Files == {"", "h.h"}
NoLocation == [file |-> "", line |-> -2, column |-> -2]  \* no location field
LocationInWord == [file |-> "", line |-> 1, column |-> 1]
LocationInHeader == [file |-> "h.h", line |-> 1, column |-> 3]
LocationUnknown == [file |-> "", line |-> -1, column |-> 0]

ClangRange(startLine, startColumn, endLine, endColumn) ==
  [start |-> [file |-> "", line |-> startLine, column |-> startColumn],
   end |-> [file |-> "", line |-> endLine, column |-> endColumn]]

\* new Range([row, column], [row, column]) of atom
Range(startRow, startColumn, endRow, endColumn) ==
  [start |-> <<startRow, startColumn>>, end |-> <<endRow, endColumn>>]

\* The buffer of an editor: every row holds the text `ab cd`, with an
\* identifier in the columns 0..2 and one in the columns 3..5.
RowLength == 5
rangeForRow(row) == Range(row, 0, row, RowLength)

\* wordAtPosition of commons-atom/range with IDENTIFIER_REGEX: the range of
\* the identifier around the position, if there is one.
NoWord == Range(-1, -1, -1, -1)
wordAtPosition(line, column) ==
  IF column \in 0..2 THEN Range(line, 0, line, 2)
  ELSE IF column \in 3..5 THEN Range(line, 3, line, 5)
  ELSE NoWord

atomRangeFromLocation(location) ==
  IF location.line < 0 THEN rangeForRow(0)
  ELSE IF wordAtPosition(location.line, location.column) # NoWord
    THEN wordAtPosition(location.line, location.column)
    ELSE rangeForRow(location.line)

atomRangeFromSourceRange(clangRange) ==
  IF \/ clangRange.end.line = -1
     \/ /\ clangRange.start.line = clangRange.end.line
        /\ clangRange.start.column = clangRange.end.column
    THEN atomRangeFromLocation(clangRange.start)
    ELSE Range(clangRange.start.line, clangRange.start.column,
               clangRange.end.line, clangRange.end.column)

\* The optional fields of a diagnostic: ranges, children and fixits are
\* lists, with a flag that is FALSE where the field is missing.
Missing == [present |-> FALSE, items |-> << >>]
Present(items) == [present |-> TRUE, items |-> items]

Diagnostic(severity, spelling, location, ranges, children, fixits) ==
  [severity |-> severity, spelling |-> spelling, location |-> location,
   ranges |-> ranges, children |-> children, fixits |-> fixits]

Child == [spelling |-> "note", location |-> LocationInHeader]
Fixit == [range |-> ClangRange(1, 0, 1, 0), value |-> "fix"]

\* The diagnostics of the clang service that the model draws from: one of
\* every severity from 0 (ignored) to 4 (fatal), with and without ranges,
\* children and fixits, the one of severity 0 without a location, and a second
\* one of severity 3 without a location.
Severities == 0..4
ClangDiagnostics ==
  {Diagnostic(0, "i", NoLocation, Missing, Missing, Missing),
   Diagnostic(1, "n", LocationInWord, Missing, Missing, Missing),
   Diagnostic(2, "w", LocationInHeader, Present(<<ClangRange(1, 0, 2, 4)>>),
              Present(<<Child>>), Present(<<Fixit>>)),
   Diagnostic(3, "e", LocationInWord, Missing, Missing, Missing),
   Diagnostic(4, "f", LocationUnknown, Present(<<ClangRange(0, 1, -1, -1)>>),
              Present(<< >>), Present(<< >>)),
   Diagnostic(3, "t", NoLocation, Missing, Missing, Missing)}

DiagnosticLists(max) ==
  UNION {[1..n -> ClangDiagnostics] : n \in 0..max}

\* What getDiagnostics resolves to when it has diagnostics.
ClangData(max) == [accurateFlags : BOOLEAN, diagnostics : DiagnosticLists(max)]

DEFAULT_FLAGS_WARNING == "Diagnostics are disabled due to lack of compilation flags. Build this file with Buck, or create a compile_commands.json file manually."

\* `diagnostic.location.file || buffer.getPath()`
FilePathOr(file, bufferPath) == IF file = "" THEN bufferPath ELSE file

\* `diagnostic.severity === 2 ? 'Warning' : 'Error'`
MessageType(severity) == IF severity = 2 THEN "Warning" ELSE "Error"

\* Variant: diagnostics of severity 1 are shown as well.
ShownFromOne(diagnostic) == ~(diagnostic.severity < 1)

\* `if (diagnostic.severity < 2) return;`
Shown(diagnostic) == ~(diagnostic.severity < 2)

\* Reading a field of the missing location raises a TypeError.
DiagnosticThrows(diagnostic) ==
  Shown(diagnostic) /\ diagnostic.location = NoLocation

NoTrace == [present |-> FALSE, items |-> << >>]
NoFix == [present |-> FALSE, range |-> NoWord, newText |-> ""]

\* The linter message of one diagnostic that is shown.
LinterMessage(diagnostic, bufferPath) ==
  [scope |-> "file",
   providerName |-> "Clang",
   type |-> MessageType(diagnostic.severity),
   filePath |-> FilePathOr(diagnostic.location.file, bufferPath),
   text |-> diagnostic.spelling,
   range |-> IF diagnostic.ranges.present
               THEN atomRangeFromSourceRange(diagnostic.ranges.items[1])
               ELSE atomRangeFromLocation(diagnostic.location),
   trace |-> IF diagnostic.children.present
               THEN [present |-> TRUE,
                     items |-> [i \in 1..Len(diagnostic.children.items) |->
                       [type |-> "Trace",
                        text |-> diagnostic.children.items[i].spelling,
                        filePath |-> FilePathOr(
                          diagnostic.children.items[i].location.file,
                          bufferPath),
                        range |-> atomRangeFromLocation(
                          diagnostic.children.items[i].location)]]]
               ELSE NoTrace,
   fix |-> IF diagnostic.fixits.present /\ diagnostic.fixits.items # << >>
             THEN [present |-> TRUE,
                   range |-> atomRangeFromSourceRange(
                               diagnostic.fixits.items[1].range),
                   newText |-> diagnostic.fixits.items[1].value]
             ELSE NoFix]

\* The message shown instead of the diagnostics of a file without flags.
FlagsWarning(bufferPath) ==
  [scope |-> "file", providerName |-> "Clang", type |-> "Warning",
   filePath |-> bufferPath, text |-> DEFAULT_FLAGS_WARNING,
   range |-> rangeForRow(0), trace |-> NoTrace, fix |-> NoFix]

\* `data.diagnostics.forEach(...)`: the messages pushed for a list of
\* diagnostics.
RECURSIVE DiagnosticMessages(_, _)
DiagnosticMessages(diagnostics, bufferPath) ==
  IF diagnostics = << >> THEN << >>
  ELSE (IF Shown(Head(diagnostics))
          THEN <<LinterMessage(Head(diagnostics), bufferPath)>>
          ELSE << >>)
       \o DiagnosticMessages(Tail(diagnostics), bufferPath)

\* `data.accurateFlags || featureConfig.get('nuclide-clang.defaultDiagnostics')`
ShowDiagnostics(data, setting) == data.accurateFlags \/ setting

\* ClangLinter._processDiagnostics: threw tells whether it raised, result
\* is what it returns otherwise.
processDiagnostics(data, bufferPath, setting) ==
  IF ShowDiagnostics(data, setting) THEN
    IF \E i \in 1..Len(data.diagnostics) :
         DiagnosticThrows(data.diagnostics[i])
      THEN [threw |-> TRUE, result |-> << >>]
      ELSE [threw |-> FALSE,
            result |-> DiagnosticMessages(data.diagnostics, bufferPath)]
  ELSE [threw |-> FALSE, result |-> <<FlagsWarning(bufferPath)>>]

\* What the call of getDiagnostics can come to: null, a rejection, or data.
FetchOutcomes ==
  {[kind |-> "null", data |-> NoData], [kind |-> "rejected", data |-> NoData]}
    \cup {[kind |-> "data", data |-> d] : d \in ClangData(MaxFetched)}

\* Variant: no try/catch, what is raised rejects the promise of lint.
CaughtRethrown(lint) == [lint EXCEPT !.rejected = TRUE, !.why = "threw"]

\* `catch (error) { getLogger().error(...); return []; }`
Caught(lint) == [lint EXCEPT !.messages = << >>, !.why = "threw",
                             !.logged = TRUE]

\* ClangLinter.lint up to `yield getDiagnostics(textEditor)`: an editor
\* without path gets the empty list at once.
lint(textEditor) ==
  /\ IF editors[textEditor].path = NoPath THEN
       /\ linted' = [NoLint EXCEPT !.called = TRUE, !.editor = textEditor,
                                   !.why = "no path"]
       /\ UNCHANGED lints
     ELSE
       /\ Len(lints) < MaxLints
       /\ lints' = Append(lints, textEditor)
       /\ UNCHANGED linted
  /\ UNCHANGED <<editors, defaultDiagnostics, processed>>
  /\ UNCHANGED notLinterVars

\* ClangLinter.lint after `yield getDiagnostics(textEditor)` for the call i
\* in flight.
getDiagnosticsSettles(i, outcome) ==
  LET textEditor == lints[i]
      done == [NoLint EXCEPT !.called = TRUE, !.editor = textEditor,
                             !.data = outcome.data,
                             !.defaultDiagnostics = defaultDiagnostics]
      processing == processDiagnostics(outcome.data, editors[textEditor].path,
                                      defaultDiagnostics)
  IN
  /\ i \in 1..Len(lints)
  /\ lints' = RemoveAt(lints, i)
  /\ linted' =
       IF outcome.kind = "rejected" THEN Caught(done)
       ELSE IF outcome.kind = "null" THEN [done EXCEPT !.why = "null"]
       ELSE IF editors[textEditor].destroyed
         THEN [done EXCEPT !.why = "destroyed"]
       ELSE IF processing.threw THEN Caught([done EXCEPT !.tracked = TRUE])
       ELSE [done EXCEPT !.messages = processing.result, !.why = "processed",
                         !.tracked = TRUE]
  /\ UNCHANGED <<editors, defaultDiagnostics, processed>>
  /\ UNCHANGED notLinterVars

\* The user closes an editor.
destroyEditor(textEditor) ==
  /\ ~editors[textEditor].destroyed
  /\ editors' = [editors EXCEPT ![textEditor].destroyed = TRUE]
  /\ UNCHANGED <<defaultDiagnostics, lints, linted, processed>>
  /\ UNCHANGED notLinterVars

\* The user changes the setting nuclide-clang.defaultDiagnostics.
setDefaultDiagnostics(value) ==
  /\ defaultDiagnostics # value
  /\ defaultDiagnostics' = value
  /\ UNCHANGED <<editors, lints, linted, processed>>
  /\ UNCHANGED notLinterVars

\* A call of ClangLinter._processDiagnostics(data, editor) on its own.
processDiagnosticsCall ==
  /\ processed.pc = "called"
  /\ processed' =
       [processed EXCEPT
          !.pc = "returned",
          !.threw = processDiagnostics(processed.data, processed.path,
                                       processed.setting).threw,
          !.result = processDiagnostics(processed.data, processed.path,
                                        processed.setting).result]
  /\ UNCHANGED <<editors, defaultDiagnostics, lints, linted>>
  /\ UNCHANGED notLinterVars

\* ----------------------------------------------------------------- modal
ClickTargets == {"inside", "outside"}

\* `Observable.fromEvent(window, 'click').skipUntil(
\*    Observable.interval(0).first()).subscribe(...)`: the subscription skips
\* the clicks until the interval has fired.
Subscribed == "skipping"

\* Modal._handleContainerInnerElement(el), the ref of the wrapping div: the
\* listeners of the element before are disposed, the element is stored,
\* and an element gets the focus, the core:cancel command and the
\* subscription to the clicks on window.  (An element that is unmounted
\* loses the focus to the body.)
HandleContainerInnerElement(el) ==
  /\ innerElement' = el
  /\ IF el = "none" THEN
       /\ cancelDisposable' = IF cancelDisposable # "none" THEN "disposed"
                               ELSE cancelDisposable
       /\ commandListener' = IF cancelDisposable # "none" THEN FALSE
                              ELSE commandListener
       /\ clickSubscription' = IF cancelDisposable # "none" THEN "none"
                                ELSE clickSubscription
       /\ activeElement' = "body"
     ELSE
       /\ activeElement' = el
       /\ cancelDisposable' = "active"
       /\ commandListener' = TRUE
       /\ clickSubscription' = Subscribed

\* Modal._handleWindowClick(event): whether it calls props.onDismiss.
handleWindowClick(target) == innerElement # "none" /\ target # "inside"

\* Modal.componentWillMount: the container and the modal panel are made.
componentWillMount ==
  /\ panel = "none"
  /\ panel' = "shown"
  /\ modalLast' = [NoModalOp EXCEPT !.op = "willMount"]
  /\ UNCHANGED <<innerElement, cancelDisposable, commandListener,
                 clickSubscription, activeElement, dismissals>>
  /\ UNCHANGED notModalVars

\* Modal.componentDidMount: the first _render mounts the wrapping div and
\* React calls its ref with the element.  byClick: the modal is shown by
\* the handler of a click, and that click then reaches window, where the
\* new subscription is still skipping.
componentDidMount(byClick) ==
  /\ panel = "shown"
  /\ innerElement = "none"
  /\ cancelDisposable = "none"
  /\ HandleContainerInnerElement("el")
  /\ modalLast' = IF byClick
                    THEN [op |-> "click", target |-> "outside",
                          sameTick |-> TRUE, mounted |-> TRUE]
                    ELSE [NoModalOp EXCEPT !.op = "didMount"]
  /\ dismissals' = IF byClick /\ Subscribed = "passing"
                         /\ dismissals < MaxDismissals
                     THEN dismissals + 1 ELSE dismissals
  /\ UNCHANGED panel
  /\ UNCHANGED notModalVars

\* Modal.componentDidUpdate: _render again; the wrapping div stays mounted
\* and its ref, the same bound function, is not called.
componentDidUpdate ==
  /\ panel = "shown"
  /\ innerElement # "none"
  /\ modalLast' = [NoModalOp EXCEPT !.op = "didUpdate"]
  /\ UNCHANGED <<panel, innerElement, cancelDisposable, commandListener,
                 clickSubscription, activeElement, dismissals>>
  /\ UNCHANGED notModalVars

\* Modal.componentWillUnmount: unmountComponentAtNode unmounts the wrapping
\* div, React calls its ref with null, and the panel is destroyed.
componentWillUnmount ==
  /\ panel = "shown"
  /\ innerElement # "none"
  /\ HandleContainerInnerElement("none")
  /\ panel' = "destroyed"
  /\ modalLast' = [NoModalOp EXCEPT !.op = "willUnmount"]
  /\ UNCHANGED dismissals
  /\ UNCHANGED notModalVars

\* A new Modal is constructed after the one before was unmounted.
newModal ==
  /\ panel = "destroyed"
  /\ panel' = "none"
  /\ cancelDisposable' = "none"
  /\ modalLast' = [NoModalOp EXCEPT !.op = "constructor"]
  /\ UNCHANGED <<innerElement, commandListener, clickSubscription,
                 activeElement, dismissals>>
  /\ UNCHANGED notModalVars

\* The timer of Observable.interval(0) fires, in a task of its own: the
\* subscription stops skipping.
intervalFires ==
  /\ clickSubscription = "skipping"
  /\ clickSubscription' = "passing"
  /\ modalLast' = [NoModalOp EXCEPT !.op = "interval"]
  /\ UNCHANGED <<panel, innerElement, cancelDisposable, commandListener,
                 activeElement, dismissals>>
  /\ UNCHANGED notModalVars

\* A click reaches window in a task of its own: a subscription that is
\* not skipping hands it to _handleWindowClick.  The click moves the focus
\* to what was clicked.
windowClick(target) ==
  /\ dismissals < MaxDismissals
  /\ dismissals' = IF clickSubscription = "passing" /\ handleWindowClick(target)
                     THEN dismissals + 1 ELSE dismissals
  /\ modalLast' = [op |-> "click", target |-> target, sameTick |-> FALSE,
                   mounted |-> innerElement # "none"]
  /\ activeElement' = IF target = "inside" /\ innerElement # "none"
                        THEN innerElement ELSE "body"
  /\ UNCHANGED <<panel, innerElement, cancelDisposable, commandListener,
                 clickSubscription>>
  /\ UNCHANGED notModalVars

\* The command core:cancel is dispatched on window.
coreCancel ==
  /\ dismissals < MaxDismissals
  /\ dismissals' = IF commandListener THEN dismissals + 1 ELSE dismissals
  /\ modalLast' = [NoModalOp EXCEPT !.op = "cancel",
                                    !.mounted = innerElement # "none"]
  /\ UNCHANGED <<panel, innerElement, cancelDisposable, commandListener,
                 clickSubscription, activeElement>>
  /\ UNCHANGED notModalVars

\* ------------------------------------------------------------ behaviours
Next ==
  \/ \E k \in Keys, throws \in BOOLEAN : getProperties(k, throws)
  \/ \E k \in Keys, throws \in BOOLEAN : evaluateWatchExpression(k, throws)
  \/ \E w \in SingleWebview : handleIpcMessage(w)
  \/ \E w \in SingleWebview : setWebviewElement(w)
  \/ cleanup
  \/ clearInterfaceTimer
  \/ RunJob

Spec == Init /\ [][Next]_vars

\* The queue of promise jobs is drained after every task, and a callback of
\* setTimeout runs after a finite time.
FairSpec == Spec /\ WF_vars(RunJob) /\ WF_vars(clearInterfaceTimer)

\* The requests in flight together with every way of attaching and
\* detaching the webview, dispose() included.
NextTeardown ==
  \/ \E k \in Keys, throws \in BOOLEAN : getProperties(k, throws)
  \/ \E k \in Keys, throws \in BOOLEAN : evaluateWatchExpression(k, throws)
  \/ \E w \in SingleWebview : handleIpcMessage(w)
  \/ \E w \in SingleWebview : setWebviewElement(w)
  \/ cleanup
  \/ dispose
  \/ clearInterfaceTimer
  \/ RunJob

SpecTeardown == Init /\ [][NextTeardown]_vars

\* The evaluation of watch and console expressions.
NextEvaluate ==
  \/ \E k \in Keys, throws \in BOOLEAN : evaluateWatchExpression(k, throws)
  \/ \E k \in Keys, mode \in DebuggerModes, throws \in BOOLEAN :
       evaluateConsoleExpression(k, mode, throws)
  \/ \E w \in SingleWebview : handleIpcMessage(w)
  \/ \E w \in SingleWebview : setWebviewElement(w)
  \/ cleanup
  \/ clearInterfaceTimer
  \/ RunJob

SpecEvaluate == Init /\ [][NextEvaluate]_vars

\* A Bridge that is given one webview and then another one, without a
\* cleanup between them.
NextWebviews ==
  \/ \E k \in Keys, throws \in BOOLEAN : getProperties(k, throws)
  \/ \E k \in Keys, throws \in BOOLEAN : evaluateWatchExpression(k, throws)
  \/ \E w \in Webviews : handleIpcMessage(w)
  \/ \E w \in Webviews : setWebviewElement(w)
  \/ RunJob

SpecWebviews == Init /\ [][NextWebviews]_vars

\* The requests in flight together with every notification of
\* _handleIpcMessage.
NextNotify ==
  \/ \E k \in Keys, throws \in BOOLEAN : getProperties(k, throws)
  \/ \E k \in Keys, throws \in BOOLEAN : evaluateWatchExpression(k, throws)
  \/ \E w \in SingleWebview : handleIpcMessage(w)
  \/ \E w \in SingleWebview, n \in StoreNotifications :
       handleStoreNotification(w, n)
  \/ \E w \in SingleWebview : handleIpcMessageSync(w)
  \/ \E w \in SingleWebview : setWebviewElement(w)
  \/ RunJob

SpecNotify == Init /\ [][NextNotify]_vars

\* The getProperties requests of users that make several calls in one
\* task and calls from promise jobs of their own.
NextReentrant ==
  \/ \E k \in Keys, throws \in BOOLEAN : getProperties(k, throws)
  \/ \E k \in Keys, throws \in BOOLEAN : getPropertiesInTask(k, throws)
  \/ \E k \in Keys : scheduleGetProperties(k)
  \/ \E w \in SingleWebview : handleIpcMessage(w)
  \/ \E w \in SingleWebview : setWebviewElement(w)
  \/ RunUserJob
  \/ RunJob

SpecReentrant == Init /\ [][NextReentrant]_vars

\* The device panel: SET_DEVICE actions and the answers of the providers.
NextDevice ==
  \/ \E state \in AppStates : setDeviceEpic(state)
  \/ \E f \in 1..Len(fetches), i \in 1..Len(Providers),
        outcome \in {"supported", "unsupported", "throws"} :
       isSupportedSettles(f, i, outcome)
  \/ promiseAllResolves
  \/ getDeviceTasksReturns
  \/ setDeviceTasksEmits

SpecDevice == Init /\ [][NextDevice]_vars

\* nuclide-notifications: the package is activated and deactivated, the
\* gatekeeper initialises, notifications are added and the service is used.
NextNotifications ==
  \/ activate
  \/ deactivate
  \/ \E enabled \in BOOLEAN : onceGkInitializedCallback(enabled)
  \/ environmentChanges
  \/ \E title \in Titles, body \in Details :
       raiseNativeNotification(title, body)
  \/ \E notification \in AtomNotifications :
       proxyToNativeNotification(notification)

SpecNotifications == Init /\ [][NextNotifications]_vars

\* The linter: editors are linted and closed, the clang service answers.
NextLinter ==
  \/ \E textEditor \in Editors : lint(textEditor)
  \/ \E i \in 1..MaxLints, outcome \in FetchOutcomes :
       getDiagnosticsSettles(i, outcome)
  \/ \E textEditor \in Editors : destroyEditor(textEditor)
  \/ \E value \in BOOLEAN : setDefaultDiagnostics(value)

SpecLinter == Init /\ [][NextLinter]_vars

\* _processDiagnostics as a function: called once on any data, for the
\* editor of a saved file, with the setting on or off.
InitProcess ==
  /\ InitState
  /\ \E data \in ClangData(MaxDiagnostics), setting \in BOOLEAN :
       processed = [NoProcess EXCEPT !.pc = "called", !.data = data,
                                     !.path = EditorPath("e1"),
                                     !.setting = setting]

NextProcess == processDiagnosticsCall

SpecProcess == InitProcess /\ [][NextProcess]_vars

\* The Modal: it is mounted, updated and unmounted, the user clicks and
\* cancels.
NextModal ==
  \/ componentWillMount
  \/ \E byClick \in BOOLEAN : componentDidMount(byClick)
  \/ componentDidUpdate
  \/ componentWillUnmount
  \/ newModal
  \/ intervalFires
  \/ \E target \in ClickTargets : windowClick(target)
  \/ coreCancel

SpecModal == Init /\ [][NextModal]_vars

\* The commands without reply and the synchronisation of settings and
\* breakpoints, with every way of attaching and detaching the webview.
NextLifecycle ==
  \/ continue
  \/ stepOver
  \/ stepInto
  \/ stepOut
  \/ \E actionId \in ActionIds : triggerAction(actionId)
  \/ \E b \in BOOLEAN : setPauseOnException(b)
  \/ \E b \in BOOLEAN : setPauseOnCaughtException(b)
  \/ \E b \in BOOLEAN : setSingleThreadStepping(b)
  \/ \E threadId \in ThreadIds : selectThread(threadId)
  \/ \E w \in SingleWebview : handleIpcMessageSync(w)
  \/ \E action \in BreakpointActions, breakpoint \in Breakpoints :
       handleUserBreakpointChange([action |-> action, breakpoint |-> breakpoint])
  \/ \E w \in SingleWebview : setWebviewElement(w)
  \/ cleanup
  \/ dispose
  \/ clearInterfaceTimer

SpecLifecycle == Init /\ [][NextLifecycle]_vars

\* A callback of setTimeout runs after a finite time.
FairLifecycle == SpecLifecycle /\ WF_vars(clearInterfaceTimer)

\* ---------------------------------------------------------------- claims
\* The call of _cachedSendCommand that a step starts, and whether a step
\* starts one.
SendStep == Len(callers') = Len(callers) + 1
NewCaller == callers'[Len(callers')]

\* The table a public method or a notification works on.
OwnTable(api) ==
  IF api \in {"getProperties", "GetPropertiesResponse"}
    THEN GetPropertiesRequestsInFlight
    ELSE ExpressionsInFlight

Live(c) == c \in 1..Len(callers) /\ callers[c].pc # "done"

\* C1: a send for (table, key) that finds a waiter in the table writes no
\* second command and, when connected, awaits that waiter; the send that
\* creates the waiter calls webview.send once (one message, or the call
\* raises); all callers that share a waiter get the same result from it.
C1_NoSecondCommand ==
  SendStep /\ cache[NewCaller.table][NewCaller.value] # NoDeferred =>
    /\ written' = << >>
    /\ inflight' = inflight
    /\ cache' = cache
    /\ Len(deferreds') = Len(deferreds)
    /\ webview # Null => NewCaller.deferred = cache[NewCaller.table][NewCaller.value]

C1_SameResult ==
  \A c1 \in 1..Len(callers) :
    callers[c1].pc = "returned" /\ callers[c1].deferred # NoDeferred =>
      /\ \A c2 \in 1..Len(callers) :
           callers[c2].pc = "returned" /\ callers[c2].deferred = callers[c1].deferred
             => callers[c2].outcome = callers[c1].outcome
      /\ last.op = "observe" /\ last.deferred = callers[c1].deferred
           => last.outcome = callers[c1].outcome

C1_OneCommand ==
  (SendStep /\ webview # Null
     /\ cache[NewCaller.table][NewCaller.value] = NoDeferred) =>
    /\ Len(deferreds') = Len(deferreds) + 1
    /\ Len(written') = 1 \/ last'.threw

C1_Deduplication ==
  [][C1_NoSecondCommand /\ C1_OneCommand]_vars /\ []C1_SameResult

\* Two callers shared one waiter: one has seen the result r1, the other
\* holds the same result.
C1_Witness ==
  /\ last.op = "observe"
  /\ last.deferred # NoDeferred
  /\ last.outcome = "r1"
  /\ \E c \in 1..Len(callers) :
       /\ callers[c].pc = "returned"
       /\ callers[c].deferred = last.deferred
       /\ callers[c].outcome = "r1"

\* C2: at most one command per (table, key) is written and not yet answered
\* by a response for that key.
C2_AtMostOneInFlight ==
  \A t \in Tables, k \in Keys : Len(inflight[t][k]) <= 1

\* C3: whenever the channel handle is null, send resolves to null, adds no
\* entry to either table and writes nothing to any channel.
C3_DisconnectedShortCircuit ==
  [][(SendStep /\ webview = Null) =>
       /\ cache' = cache
       /\ deferreds' = deferreds
       /\ written' = << >>
       /\ inflight' = inflight
       /\ NewCaller.pc = "returned"
       /\ NewCaller.outcome = Null
       /\ NewCaller.deferred = NoDeferred]_vars

\* A send on a bridge without webview has returned null while the tables
\* are empty and nothing was written.
C3_Witness ==
  /\ last.op = "send"
  /\ webview = Null
  /\ callers[Len(callers)].outcome = Null
  /\ callers[Len(callers)].pc = "returned"
  /\ written = << >>
  /\ \A t \in Tables, k \in Keys : cache[t][k] = NoDeferred

\* C4: when a caller of send sees a result or null that came from a waiter,
\* that waiter is in no table any more.
C4_RemovedBeforeObserved ==
  (last.op = "observe" /\ last.deferred # NoDeferred /\ last.outcome # Rejected)
    => \A t \in Tables, k \in Keys : cache[t][k] # last.deferred

\* A caller has seen the result r1 of a waiter.
C4_Witness ==
  /\ last.op = "observe"
  /\ last.deferred # NoDeferred
  /\ last.outcome = "r1"

\* C5: a deliver with a non-null error for a pending waiter rejects the
\* waiter with that error, also when the response carries a result; a caller
\* resumed by a rejected waiter returns null and logs one warning that names
\* its command and the error.
C5_RejectsWithError ==
  (last'.op = "deliver" /\ last'.fresh /\ last'.error # Null) =>
    deferreds'[last'.deferred] = [state |-> "rejected", value |-> last'.error]

C5_NullAndWarning ==
  (last'.op = "resume" /\ deferreds[last'.deferred].state = "rejected") =>
    /\ callers'[Head(queue).caller].pc = "returned"
    /\ callers'[Head(queue).caller].outcome = Null
    /\ warned' = <<[command |-> callers[Head(queue).caller].command,
                    error |-> deferreds[last'.deferred].value]>>

C5_ErrorMapping == [][C5_RejectsWithError /\ C5_NullAndWarning]_vars

\* A caller has seen null after its waiter was rejected by a response that
\* carried an error: the warning was logged when it resumed.
C5_Witness ==
  /\ last.op = "resume"
  /\ warned = <<[command |-> "getProperties", error |-> "e1"]>>
  /\ \E c \in 1..Len(callers) :
       callers[c].pc = "returned" /\ callers[c].outcome = Null

\* C6: the awaitable returned by send never rejects, whatever fails, and a
\* caller that has seen its outcome finds no entry left by its call.
C6_NoFailurePropagates ==
  last.op = "observe" =>
    /\ last.outcome # Rejected
    /\ cache[last.table][last.key] = NoDeferred
         \/ \E c \in 1..Len(callers) :
              Live(c) /\ callers[c].deferred = cache[last.table][last.key]

\* C7: once a deliver without error has resolved the waiter of a pending
\* key and the promise jobs it caused have run, the table has no entry for
\* the key that holds this waiter.
C7_EntryRemovedAfterDeliver ==
  (queue = << >> /\ ~draining) =>
    \A t \in Tables, k \in Keys :
      cache[t][k] # NoDeferred => deferreds[cache[t][k]].state # "resolved"

\* C8: a deliver for a key whose waiter is settled or gone raises no error
\* and changes neither a waiter, nor what a caller holds or will get, nor a
\* table.
C8_SecondDeliverNoOp ==
  [][(last'.op = "deliver" /\
      (cache[last'.table][last'.key] = NoDeferred
         \/ deferreds[cache[last'.table][last'.key]].state # "pending")) =>
       /\ ~last'.threw
       /\ cache' = cache
       /\ deferreds' = deferreds
       /\ callers' = callers
       /\ queue' = queue]_vars

\* A second response arrived for a waiter that a first response had
\* resolved with r1 and that is still in the table: it stays resolved with r1.
C8_Witness ==
  /\ last.op = "deliver"
  /\ last.hit
  /\ ~last.fresh
  /\ deferreds[last.deferred] = [state |-> "resolved", value |-> "r1"]

\* C9: a deliver for a key without entry in the table does not throw,
\* creates no entry, settles no waiter and writes nothing.
C9_UnmatchedDeliverInert ==
  [][(last'.op = "deliver" /\ cache[OwnTable(last'.api)][last'.key] = NoDeferred) =>
       /\ ~last'.threw
       /\ cache' = cache
       /\ deferreds' = deferreds
       /\ callers' = callers
       /\ queue' = queue
       /\ written' = << >>]_vars

\* A response arrived for a key without entry while the other table has a
\* pending waiter for the same key.
C9_Witness ==
  /\ last.op = "deliver"
  /\ ~last.hit
  /\ ~last.threw
  /\ cache[last.table][last.key] = NoDeferred
  /\ \E t \in Tables : /\ cache[t][last.key] # NoDeferred
                       /\ deferreds[cache[t][last.key]].state = "pending"

\* C10: a send (with its completion) or a deliver on one table leaves the
\* entries of the other table and their waiters as they are, and a send for
\* a key that is absent from its own table writes its command whatever the
\* other table holds.
C10_OtherTableUntouched ==
  last'.op \in {"send", "resume", "deliver"} =>
    \A u \in Tables \ {OwnTable(last'.api)}, k \in Keys :
      /\ cache'[u][k] = cache[u][k]
      /\ cache[u][k] # NoDeferred => deferreds'[cache[u][k]] = deferreds[cache[u][k]]

C10_NotSuppressed ==
  (SendStep /\ webview # Null /\ ~last'.threw
     /\ cache[OwnTable(NewCaller.api)][NewCaller.value] = NoDeferred) =>
    written' = <<[webview |-> webview, command |-> NewCaller.command,
                  value |-> NewCaller.value, group |-> NewCaller.group]>>

C10_Isolation == [][C10_OtherTableUntouched /\ C10_NotSuppressed]_vars

\* The key x is in both tables; a response has resolved the waiter of the
\* getProperties table and the waiter of the expression table is pending.
C10_Witness ==
  /\ last.op = "deliver"
  /\ last.api = "GetPropertiesResponse"
  /\ last.fresh
  /\ cache[ExpressionsInFlight]["x"] # NoDeferred
  /\ cache[GetPropertiesRequestsInFlight]["x"] # NoDeferred
  /\ deferreds[cache[ExpressionsInFlight]["x"]].state = "pending"
  /\ deferreds[cache[GetPropertiesRequestsInFlight]["x"]].state = "resolved"

\* C11: an entry appears in a table only through a send for a key that has
\* no entry, a send for a key that has one leaves it in place, and an entry
\* leaves a table only when a response has settled its waiter: no step
\* removes an entry whose waiter is pending.
C11_CreatedOnlyBySend ==
  \A t \in Tables, k \in Keys :
    /\ (cache[t][k] = NoDeferred /\ cache'[t][k] # NoDeferred) =>
         /\ last'.op = "send" /\ last'.table = t /\ last'.key = k
         /\ cache'[t][k] = Len(deferreds) + 1
    /\ (cache[t][k] # NoDeferred /\ last'.op = "send") =>
         cache'[t][k] = cache[t][k]

C11_RemovedOnlyWhenSettled ==
  \A t \in Tables, k \in Keys :
    (cache[t][k] # NoDeferred /\ cache'[t][k] # cache[t][k]) =>
      deferreds[cache[t][k]].state \in {"resolved", "rejected"}

C11_EntryLifecycle ==
  [][C11_CreatedOnlyBySend /\ C11_RemovedOnlyWhenSettled]_vars

\* C12: while the webview is null, before the first attach and after
\* cleanup, no operation of the Bridge writes a message: the commands
\* without reply, the synchronisation of settings and breakpoints on ready
\* and a user's breakpoint change write nothing.
C12_NoWriteWhenDisconnected ==
  [][webview = Null =>
       /\ written' = << >>
       /\ last'.op \in {"command", "ready", "breakpoint"} =>
            UNCHANGED <<webview, listeners, timers, cleanupDisposables>>]_vars

\* After cleanup a command without reply was called and nothing was written.
C12_Witness ==
  /\ last.op = "command"
  /\ webview = Null
  /\ cleanupDisposables.disposed
  /\ written = << >>

\* C13: setWebviewElement, cleanup and dispose leave both tables as they
\* are and settle no waiter: no caller is resumed and no promise job is
\* queued by them.
C13_TeardownKeepsRequests ==
  [][last'.op \in {"attach", "cleanup"} =>
       /\ cache' = cache
       /\ deferreds' = deferreds
       /\ callers' = callers
       /\ queue' = queue]_vars

\* dispose() ran while a request was in flight: its entry is in the table,
\* its waiter is pending and its caller is still suspended.
C13_Witness ==
  /\ last.api = "dispose"
  /\ \E t \in Tables, k \in Keys :
       /\ cache[t][k] # NoDeferred
       /\ deferreds[cache[t][k]].state = "pending"
       /\ \E c \in 1..Len(callers) :
            callers[c].deferred = cache[t][k] /\ callers[c].pc = "awaiting"

\* C14: there is no timeout.  As long as no response for the key of a
\* pending entry is delivered, whatever else happens the entry stays in its
\* table, its waiter stays pending and the callers suspended on it stay
\* suspended.
C14_PendingUntilResponse ==
  \A t \in Tables, k \in Keys :
    (/\ cache[t][k] # NoDeferred
     /\ deferreds[cache[t][k]].state = "pending"
     /\ ~(last'.op = "deliver" /\ last'.table = t /\ last'.key = k)) =>
      /\ cache'[t][k] = cache[t][k]
      /\ deferreds'[cache[t][k]].state = "pending"
      /\ \A c \in 1..Len(callers) :
           callers[c].deferred = cache[t][k] => callers'[c] = callers[c]

C14_NoTimeout == [][C14_PendingUntilResponse]_vars

\* C15: when a response for key k of table t is delivered while a caller of
\* a send for (t, k) is suspended, that caller eventually sees an outcome,
\* and the entry of a waiter that a response has settled is eventually
\* removed.
Suspended(c) ==
  c \in 1..Len(callers) /\ callers[c].pc \in {"awaiting", "queued"}

Observed(c) == c \in 1..Len(callers) /\ callers[c].pc = "done"

C15_CallerObserves ==
  \A c \in 1..MaxCallers :
    (/\ Suspended(c)
     /\ last.op = "deliver"
     /\ last.table = callers[c].table
     /\ last.key = callers[c].value) ~> Observed(c)

C15_EntryRemoved ==
  \A d \in 1..MaxCallers :
    (/\ last.op = "deliver"
     /\ last.deferred = d
     /\ \E c \in 1..Len(callers) : Suspended(c) /\ callers[c].deferred = d)
      ~> (\A t \in Tables, k \in Keys : cache[t][k] # d)

C15_ResponseLiveness == C15_CallerObserves /\ C15_EntryRemoved

\* C16: evaluateWatchExpression and evaluateConsoleExpression never resolve
\* to null and never reject: when the send yields null they resolve to the
\* text 'Failed to evaluate: ' + expression, and otherwise to the delivered
\* result.
C16_FallbackNeverNull ==
  (last.op = "observe"
     /\ last.api \in {"evaluateWatchExpression", "evaluateConsoleExpression"}) =>
    /\ last.final # Null
    /\ last.final # Rejected
    /\ last.outcome = Null => last.final = FailedToEvaluate(last.key)
    /\ last.outcome \in Results => last.final = last.outcome

\* C17: when cleanup has returned, no ipc-message handler that an earlier
\* setWebviewElement attached is still attached to a webview.
C17_NoListenerAfterCleanup ==
  last.op = "cleanup" => \A w \in Webviews : listeners[w] = 0

\* C18: after cleanup the Bridge is in the state of a newly constructed
\* one: no webview, both tables empty and _suppressBreakpointSync false.
C18_CleanupRestoresInitialState ==
  last.op = "cleanup" =>
    /\ webview = Null
    /\ cache = [t \in Tables |-> EmptyTable]
    /\ suppressBreakpointSync = FALSE

\* C19: cleanup and dispose do not dispatch clearInterface themselves: each
\* call clears the webview and leaves exactly one callback waiting, only
\* these calls leave one, each callback that runs dispatches clearInterface
\* once, in a task of its own, and after every call a clearInterface is
\* eventually dispatched.
C19_ScheduledOnce ==
  /\ last'.op = "cleanup" =>
       /\ timers' = timers + 1
       /\ webview' = Null
  /\ timers' > timers => last'.op = "cleanup"
  /\ last'.op = "clearInterface" <=> timers' = timers - 1
  /\ last'.op = "clearInterface" =>
       /\ timers > 0
       /\ UNCHANGED <<webview, listeners, cleanupDisposables, disposables>>

C19_DeferredClearInterface ==
  /\ [][C19_ScheduledOnce]_vars
  /\ (last.op = "cleanup") ~> (last.op = "clearInterface")

\* The callback scheduled by dispose() has run: clearInterface was
\* dispatched while the webview is null and no callback is left.
C19_Witness ==
  /\ last.op = "clearInterface"
  /\ disposables.disposed
  /\ webview = Null
  /\ timers = 0

\* C20: device tasks are cached per host, device name and provider name.
\* Every task that getDeviceTasks returns for a device is the first and only
\* instance made for that provider on that host and device, and the factory
\* runs at most once for a key of the cache.
C20_TaskCachedPerDevice ==
  /\ \A key \in DeviceKeys : factoryRuns[key] <= 1
  /\ returned.called =>
       \A i \in 1..Len(returned.tasks) :
         /\ returned.tasks[i].host = returned.state.host
         /\ returned.tasks[i].device = returned.state.device.name
         /\ returned.tasks[i].run = 1

\* C21: raiseNativeNotification creates a native notification exactly when
\* gkEnabled is true and the whenFocused setting is on or the window is not
\* focused, and has no effect otherwise.  gkEnabled is false at first and
\* changes only when the gatekeeper calls the callback that activate gave
\* to onceGkInitialized, to what isGkEnabled reports then.
C21_CreatesIffAllowed ==
  notified'.op \in {"raise", "proxy"} =>
    /\ nativeNotifications' # << >> <=>
         (gkEnabled /\ (whenFocused \/ ~focused))
    /\ nativeNotifications' # << >> =>
         nativeNotifications' = <<[title |-> notified'.title,
                                   body |-> notified'.body, icon |-> Icon]>>
    /\ UNCHANGED <<subscriptions, gkEnabled, gkCallbackGiven, whenFocused,
                 onlyNativeFriendly, focused>>

C21_FlagFromGatekeeper ==
  /\ gkEnabled' # gkEnabled => notified'.op = "callback"
  /\ notified'.op = "callback" => gkEnabled' = notified'.reported

C21_OnlyRaiseCreates ==
  nativeNotifications' # << >> => notified'.op \in {"raise", "proxy"}

C21_NativeNotificationGuard ==
  /\ [][C21_CreatesIffAllowed /\ C21_FlagFromGatekeeper
          /\ C21_OnlyRaiseCreates]_vars
  /\ ~gkEnabled

\* A notification was created in a focused window because the whenFocused
\* setting is on, after the gatekeeper reported the feature enabled.
C21_Witness ==
  /\ notified.op = "raise"
  /\ nativeNotifications # << >>
  /\ gkEnabled
  /\ focused
  /\ whenFocused

\* C22: ClangLinter.lint never rejects.  It resolves to the empty list for
\* an editor without path, when getDiagnostics resolves to null, when the
\* editor was destroyed while the diagnostics were fetched, and when
\* fetching or processing the diagnostics raises.
C22_LintNeverRejects ==
  linted.called =>
    /\ ~linted.rejected
    /\ linted.why \in {"no path", "null", "destroyed", "threw"} =>
         linted.messages = << >>
    /\ editors[linted.editor].path = NoPath => linted.why = "no path"
    /\ (\E i \in 1..Len(linted.data.diagnostics) :
          /\ linted.data.diagnostics[i].severity >= 2
          /\ linted.data.diagnostics[i].location = NoLocation
          /\ linted.data.accurateFlags) => linted.messages = << >>

\* The processing of the diagnostics raised, on a diagnostic of severity 3
\* that has no location: lint logged the error and resolved to the empty
\* list.
C22_Witness ==
  /\ linted.called
  /\ linted.why = "threw"
  /\ linted.logged
  /\ linted.tracked
  /\ linted.messages = << >>
  /\ ~linted.rejected

\* C23: _processDiagnostics emits one linter message per diagnostic of
\* severity 2, 3 or 4, in the order of the diagnostics, and none for a
\* severity below 2; the message is a 'Warning' exactly when the severity is
\* 2 and an 'Error' otherwise.  When the flags are not accurate and the
\* setting defaultDiagnostics is off it emits exactly one 'Warning', the
\* message about the missing compilation flags, and no diagnostic message.
ShownDiagnostics(diagnostics) ==
  SelectSeq(diagnostics, LAMBDA d : d.severity \in {2, 3, 4})

C23_ProcessDiagnostics ==
  (processed.pc = "returned" /\ ~processed.threw) =>
    IF ~processed.data.accurateFlags /\ ~processed.setting THEN
      /\ Len(processed.result) = 1
      /\ processed.result[1].type = "Warning"
      /\ processed.result[1].text = DEFAULT_FLAGS_WARNING
    ELSE
      LET shown == ShownDiagnostics(processed.data.diagnostics) IN
      /\ Len(processed.result) = Len(shown)
      /\ \A i \in 1..Len(shown) :
           /\ processed.result[i].text = shown[i].spelling
           /\ processed.result[i].type = "Warning" <=> shown[i].severity = 2
           /\ processed.result[i].type = "Error" <=> shown[i].severity # 2

\* Two diagnostics, one of severity 1 and one of severity 4, gave one
\* message, an 'Error'.
C23_Witness ==
  /\ processed.pc = "returned"
  /\ Len(processed.data.diagnostics) = 2
  /\ processed.data.diagnostics[1].severity = 1
  /\ processed.data.diagnostics[2].severity = 4
  /\ Len(processed.result) = 1
  /\ processed.result[1].type = "Error"

\* C24: while the inner element of the modal is mounted, a click on window
\* outside the inner element calls onDismiss and a click inside does not; the
\* click in whose tick the modal was shown never calls onDismiss; once the
\* inner element is unmounted, no click and no core:cancel calls onDismiss.
Dismissed == dismissals' = dismissals + 1

C24_MountedClick ==
  (modalLast'.op = "click" /\ ~modalLast'.sameTick /\ innerElement # "none") =>
    (Dismissed <=> modalLast'.target = "outside")

C24_SameTickClick ==
  (modalLast'.op = "click" /\ modalLast'.sameTick) => ~Dismissed

C24_Unmounted ==
  (modalLast'.op \in {"click", "cancel"} /\ ~modalLast'.sameTick
     /\ innerElement = "none") => ~Dismissed

C24_ModalDismissal ==
  [][C24_MountedClick /\ C24_SameTickClick /\ C24_Unmounted]_vars

\* C25: a response settles only a waiter that was created for the command
\* the response answers; so the response to a command written before a
\* NonLoaderDebuggerPaused notification never becomes the result of a
\* request for the same expression made after it.
C25_ResponseForOwnCommand ==
  [][(/\ last'.op = "deliver"
      /\ last'.fresh
      /\ inflight[last'.table][last'.key] # << >>) =>
       Head(inflight[last'.table][last'.key]) = last'.deferred]_vars

\* C27: in the expression table a call of _cachedSendCommand joins the
\* waiter of a request still in flight, writing no command of its own, only
\* when the two requests have the same command name and the same
\* arguments (expression and object group), not merely the same expression.
C27_CollapsedOnlySameRequest ==
  [][(/\ SendStep
      /\ last'.op = "send"
      /\ last'.table = ExpressionsInFlight
      /\ last'.hit) =>
       \A c \in 1..Len(callers) :
         (/\ callers[c].deferred = last'.deferred
          /\ callers[c].pc \in {"awaiting", "queued"}) =>
           /\ callers[c].command = NewCaller.command
           /\ callers[c].value = NewCaller.value
           /\ callers[c].group = NewCaller.group]_vars

\* C28: the Bridge handles the ipc-message events of the webview it
\* currently holds and of no other: once setWebviewElement has replaced a
\* webview, without a cleanup in between, a message that the replaced
\* webview emits settles no waiter.
C28_OnlyCurrentWebviewHandled ==
  [][(last'.op = "deliver" /\ last'.fresh) => last'.emitter = webview]_vars

\* C29: a NonLoaderDebuggerPaused notification removes every entry of the
\* expression table without settling a waiter or queueing a reaction, the
\* table is already empty when the mode is set to PAUSED, and the
\* getProperties table is unchanged; no other notification (ready, the
\* breakpoint notifications and the responses included) removes an entry
\* from either table.
C29_PausedStep ==
  last'.op = "paused" =>
    /\ cache'[ExpressionsInFlight] = EmptyTable
    /\ cache'[GetPropertiesRequestsInFlight] =
         cache[GetPropertiesRequestsInFlight]
    /\ last'.dispatched = [mode |-> "paused", expressions |-> EmptyTable]
    /\ callers' = callers
    /\ queue' = queue
    /\ \A d \in 1..Len(deferreds) :
         deferreds'[d].state \in {deferreds[d].state, "collected"}

C29_OtherNotification ==
  last'.op \in {"notify", "deliver", "ready", "bind"} => cache' = cache

C29_PauseClearsExpressions ==
  [][C29_PausedStep /\ C29_OtherNotification]_vars

\* A pause has emptied an expression table that held an entry: the caller
\* of the entry is still suspended on its pending waiter and the entry of
\* the getProperties table is still there.
C29_Witness ==
  /\ last.op = "paused"
  /\ last.hit
  /\ cache[GetPropertiesRequestsInFlight] # EmptyTable
  /\ \E c \in 1..Len(callers) :
       /\ callers[c].table = ExpressionsInFlight
       /\ callers[c].pc = "awaiting"
       /\ deferreds[callers[c].deferred].state = "pending"

\* C26: the completion of a call of _cachedSendCommand removes the entry
\* of its key only while the entry still holds the waiter the call
\* awaited; the entry of a fresh waiter, created for the same key after
\* another sharer of the settled waiter completed, is not removed.
C26_RemovesOnlyOwnWaiter ==
  [][last'.op = "resume" =>
       \/ cache' = cache
       \/ cache[last'.table][last'.key] = last'.deferred]_vars

====
